---------------------------- MODULE Spec2Model ----------------------------
(***************************************************************************)
(* A model of the data-acquisition layer of pray-cli:                      *)
(*   - api.Client.doRequestWithRetry     (internal/api/client.go)          *)
(*   - cache.Cache and cache.GenerateKey (internal/cache)                  *)
(*   - location.Detector.DetectFromIP    (internal/location)               *)
(*   - api.CachedClient                  (internal/api)                    *)
(*   - the fetch step of the CLI commands (cmd/pray/cmd)                   *)
(* Each component has its own variables and its own specification; a       *)
(* specification keeps the variables of the other components idle.         *)
(***************************************************************************)
EXTENDS Integers, Sequences, FiniteSets, TLC

VARIABLES
    \* ---- api.Client.doRequestWithRetry (one call) ----
    r_pc,          \* "idle" | "call" | "inflight" | "backoff" | "done"
    r_maxRetries,  \* Client.maxRetries
    r_attempt,     \* the loop variable `attempt`
    r_attempts,    \* number of doRequest calls made so far
    r_ctxDone,     \* the caller's context is cancelled / past its deadline
    r_lastErr,     \* the local `lastErr`
    r_result,      \* what the call returned (NoResult while running)
    r_waits,       \* the backoff durations slept so far, in ms
    \* ---- cache.Cache (one instance and its directory) ----
    c_enabled,     \* Cache.enabled
    c_ttl,         \* Cache.ttl, in clock ticks
    c_dirExists,   \* the directory Cache.dir exists on disk
    c_files,       \* the entry file of each key: its content, or NoFile
    c_last,        \* the last cache operation: its arguments and its return
    now,           \* the wall clock, time.Now()
    \* ---- location.Detector.DetectFromIP (one call) ----
    d_pc,          \* "idle" | "run" | "done"
    d_calls,       \* the providers contacted so far, in order
    d_replies,     \* what each contacted provider's adapter returned
    d_result,      \* what DetectFromIP returned (NoResult while running)
    \* ---- cache.GenerateKey, as the CachedClient calls it ----
    k_reqs,        \* two requests, <<a, b>>
    k_keys,        \* the key computed for each ("" before it is computed)
    \* ---- api.CachedClient (over the cache variables above) ----
    cc_hasCache,   \* CachedClient.cache # nil
    cc_bypass,     \* CachedClient.bypass
    cc_last,       \* the last CachedClient call: arguments and return
    net_calls,     \* remote calls made so far (calls of doRequestWithRetry)
    \* ---- the pray commands (cmd/pray/cmd) ----
    cli_last,      \* the last command run: its requests and remote calls
    cli_fetched,   \* per request, when a command last fetched it (0: never)
    \* ---- a fetch method of api.Client (over doRequestWithRetry above) ----
    f_pc,          \* "idle" | "start" | "wait" | "done"
    f_call,        \* the method called and its address argument
    f_received,    \* the content of the body doRequestWithRetry returned
    f_result,      \* what the method returned (NoResult while running)
    \* ---- one command and the goroutines it starts ----
    p_cmd,         \* the command run: "diff" | "calendar"
    p_updateCheck, \* cfg.UpdateCheck && !quiet
    p_pc,          \* the main goroutine: "idle" | "run" | "recv1" | "recv2"
                   \* | "check" | "download" | "postrun" | "select" | "exit"
    p_out,         \* what RunE did: "none" | "rendered" | "error1" | ...
    g_pc,          \* each diff fetcher: "none" | "fetching" | "done"
    g_ch,          \* ch1 and ch2, the buffered channels of the fetchers
    p_r,           \* r1 and r2, as received
    s_running,     \* Spinner.running
    s_done,        \* Spinner.done is closed
    s_frameIdx,    \* frameIdx of the spinner goroutine
    s_pc,          \* the spinner goroutine: "none" | "loop" | "done"
    u_pc,          \* the update goroutine: "none" | "checking" | "sent" | "done"
    u_ch,          \* resultChan
    u_ctxDone,     \* the 3 s context of PersistentPostRun is done
    u_sel,         \* the case that woke the select: "none" | "result" | "ctx"
    u_printed,     \* the update notice was printed
    u_events,      \* the order in which result and deadline occurred
    \* ---- processes racing on one key's file ----
    fs_path,       \* the inode the key's path names (NoInode: no file)
    fs_inodes,     \* the content of each inode, a sequence of bytes
    set_pc,        \* each Set: "idle" | "start" | "open" | "done"
    set_fd,        \* the inode each Set has open
    set_data,      \* the bytes each Set writes
    set_order,     \* the Sets in the order they completed
    get_pc,        \* the concurrent Get: "idle" | "start" | "remove" | "done"
    get_ret,       \* what the concurrent Get returned
    get_removed,   \* the content of the file the Get removed
    \* ---- DetectFromIP (one call) under its context, with time ----
    t_pc,          \* "idle" | "run" | "done"
    t_deadline,    \* the deadline of ctx, in seconds after the call began
    t_elapsed,     \* seconds since the call began
    t_cancelled,   \* the caller has cancelled ctx
    t_attempts,    \* the adapter calls made so far, in order
    t_result,      \* what DetectFromIP returned (NoResult while running)
    \* ---- one ui.Spinner and the calls made on it ----
    sp_calls,      \* the calls made so far, in order
    sp_running,    \* Spinner.running
    sp_message,    \* Spinner.message
    sp_closes,     \* how many times close(s.done) was executed
    sp_live,       \* goroutines of Start that have not returned
    sp_panicked,   \* a call panicked
    \* ---- parseDate on a weekday name ----
    wd_from,       \* time.Now(), as a day number
    wd_target,     \* the weekday named
    wd_result,     \* the date returned (NoResult before the call)
    \* ---- the location of one today/get or next run ----
    l_flags,       \* the flags and the config of the run
    l_out          \* what the run chose, fetched and saved

retryVars == <<r_pc, r_maxRetries, r_attempt, r_attempts, r_ctxDone,
               r_lastErr, r_result, r_waits>>

cacheVars == <<c_enabled, c_ttl, c_dirExists, c_files, c_last>>

detVars == <<d_pc, d_calls, d_replies, d_result>>

keyVars == <<k_reqs, k_keys>>

ccVars == <<cc_hasCache, cc_bypass, cc_last, net_calls>>

cliVars == <<cli_last, cli_fetched>>

fetchVars == <<f_pc, f_call, f_received, f_result>>

procVars == <<p_cmd, p_updateCheck, p_pc, p_out, g_pc, g_ch, p_r, s_running,
              s_done, s_frameIdx, s_pc, u_pc, u_ch, u_ctxDone, u_sel,
              u_printed, u_events>>

raceVars == <<fs_path, fs_inodes, set_pc, set_fd, set_data, set_order, get_pc,
              get_ret, get_removed>>

timedVars == <<t_pc, t_deadline, t_elapsed, t_cancelled, t_attempts, t_result>>

spinnerVars == <<sp_calls, sp_running, sp_message, sp_closes, sp_live,
                 sp_panicked>>

dateVars == <<wd_from, wd_target, wd_result>>

locVars == <<l_flags, l_out>>

concVars == <<procVars, raceVars, timedVars, spinnerVars, dateVars, locVars>>

vars == <<retryVars, cacheVars, now, detVars, keyVars, ccVars, cliVars,
          fetchVars, concVars>>

-----------------------------------------------------------------------------
(***************************************************************************)
(* api.Client.doRequestWithRetry                                           *)
(***************************************************************************)

\* Largest maxRetries the model configures (WithMaxRetries takes any int;
\* the smallest value modelled is -1).
MaxRetriesBound == 3

DefaultMaxRetries == 3

NoResult == [kind |-> "none"]
NoErr == [kind |-> "nil"]

\* The ways one doRequest call can end: a 2xx response, a transport error
\* (httpClient.Do or the body read failed), or a non-2xx status.
Outcomes == {"ok", "neterr", "status"}

\* The body of the response the attempt-th call (0-based) received.
Body(status, attempt) ==
    [kind |-> "body", status |-> status, attempt |-> attempt]

\* doRequest's return value for the attempt-th call (0-based) ending in `o`:
\* `if resp.StatusCode < 200 || resp.StatusCode >= 300` is an error.
doRequestUnchecked(o, attempt) ==
    IF o = "neterr"
    THEN [body |-> NoResult, err |-> [kind |-> o, attempt |-> attempt]]
    ELSE [body |-> Body(IF o = "ok" THEN "2xx" ELSE "other", attempt),
          err |-> NoErr]
doRequest(o, attempt) ==
    IF o = "ok"
    THEN [body |-> Body("2xx", attempt), err |-> NoErr]
    ELSE [body |-> NoResult, err |-> [kind |-> o, attempt |-> attempt]]

\* The loop condition `attempt <= c.maxRetries`.
LoopCondStrict(attempt, maxRetries) == attempt < maxRetries
LoopCond(attempt, maxRetries) == attempt <= maxRetries

\* A wait that grows with the attempt, not with its square.
backoffLinear(attempt) == attempt * 100

\* `backoff := time.Duration(attempt*attempt) * 100 * time.Millisecond`, in ms.
backoff(attempt) == attempt * attempt * 100

\* `if ctx.Err() != nil { return nil, ctx.Err() }` after a failed attempt.
AbortsNever(ctxDone) == FALSE
AbortsAfterFailure(ctxDone) == ctxDone

CtxErr == [kind |-> "ctx"]

\* fmt.Errorf("request failed after %d attempts: %w", c.maxRetries+1, lastErr)
ExhaustedErr(maxRetries, lastErr) ==
    [kind |-> "exhausted", attempts |-> maxRetries + 1, wraps |-> lastErr]

RetryIdle ==
    /\ r_pc = "idle"
    /\ r_maxRetries = 0
    /\ r_attempt = 0
    /\ r_attempts = 0
    /\ r_ctxDone = FALSE
    /\ r_lastErr = NoErr
    /\ r_result = NoResult
    /\ r_waits = <<>>

RetryInit ==
    /\ r_pc = "call"
    /\ r_maxRetries \in -1..MaxRetriesBound
    /\ r_attempt = 0
    /\ r_attempts = 0
    /\ r_ctxDone = FALSE
    /\ r_lastErr = NoErr
    /\ r_result = NoResult
    /\ r_waits = <<>>

\* Entry: `attempt := 0`, the first loop test, and (attempt = 0 sleeps
\* nothing) the first doRequest call goes out.
Call ==
    /\ r_pc = "call"
    /\ IF LoopCond(0, r_maxRetries)
       THEN /\ r_pc' = "inflight"
            /\ r_attempts' = r_attempts + 1
            /\ r_result' = r_result
       ELSE /\ r_pc' = "done"
            /\ r_attempts' = r_attempts
            /\ r_result' = [body |-> NoResult,
                            err |-> ExhaustedErr(r_maxRetries, r_lastErr)]
    /\ UNCHANGED <<r_maxRetries, r_attempt, r_ctxDone, r_lastErr, r_waits>>

\* doRequest returns; lines 208-219 and the loop's post statement and test.
FinishAttempt ==
    /\ r_pc = "inflight"
    /\ \E o \in Outcomes :
         LET ret == doRequest(o, r_attempt) IN
         IF ret.err = NoErr
         THEN /\ r_pc' = "done"
              /\ r_result' = ret
              /\ UNCHANGED <<r_attempt, r_lastErr>>
         ELSE /\ r_lastErr' = ret.err
              /\ IF AbortsAfterFailure(r_ctxDone)
                 THEN /\ r_pc' = "done"
                      /\ r_result' = [body |-> NoResult, err |-> CtxErr]
                      /\ r_attempt' = r_attempt
                 ELSE /\ r_attempt' = r_attempt + 1
                      /\ IF LoopCond(r_attempt + 1, r_maxRetries)
                         THEN /\ r_pc' = "backoff"
                              /\ r_result' = r_result
                         ELSE /\ r_pc' = "done"
                              /\ r_result' =
                                   [body |-> NoResult,
                                    err |-> ExhaustedErr(r_maxRetries, ret.err)]
    /\ UNCHANGED <<r_maxRetries, r_attempts, r_ctxDone, r_waits>>

\* The select's `case <-ctx.Done()`: taken when the context is done on entry
\* or becomes done while the goroutine is parked in the select.
BackoffCancelled ==
    /\ r_pc = "backoff"
    /\ r_ctxDone
    /\ r_pc' = "done"
    /\ r_result' = [body |-> NoResult, err |-> CtxErr]
    /\ UNCHANGED <<r_maxRetries, r_attempt, r_attempts, r_ctxDone, r_lastErr,
                   r_waits>>

\* The select's `case <-time.After(backoff)`: the timer, armed on entry with
\* at least 100 ms, fires before the context is done; the next doRequest call
\* goes out at once.
BackoffElapsed ==
    /\ r_pc = "backoff"
    /\ ~r_ctxDone
    /\ r_waits' = Append(r_waits, backoff(r_attempt))
    /\ r_pc' = "inflight"
    /\ r_attempts' = r_attempts + 1
    /\ UNCHANGED <<r_maxRetries, r_attempt, r_ctxDone, r_lastErr, r_result>>

\* The caller cancels the context, or its deadline passes.
Cancel ==
    /\ r_pc \in {"call", "inflight", "backoff"}
    /\ ~r_ctxDone
    /\ r_ctxDone' = TRUE
    /\ UNCHANGED <<r_pc, r_maxRetries, r_attempt, r_attempts, r_lastErr,
                   r_result, r_waits>>

-----------------------------------------------------------------------------
(***************************************************************************)
(* cache.Cache: one JSON file per key in Cache.dir                         *)
(***************************************************************************)

\* The clock runs from 1 to MaxTime.
MaxTime == 4

\* The zero time.Time, which an absent "expires_at" field unmarshals to.
ZeroTime == 0

\* The TTLs a cache is constructed with (WithTTL takes any Duration).
TTLs == {-1, 0, 1, 2}

CacheKeys == {"k1", "k2"}

\* A payload ([]byte): whether it is JSON text, whether that text holds
\* insignificant white space (`{"a": 1}`), and the value it denotes.
Bytes(valid, spaced, value) ==
    [valid |-> valid, spaced |-> spaced, value |-> value]

\* A nil []byte.
NilBytes == Bytes(FALSE, FALSE, "nil")

\* Payloads handed to Set: two compact JSON texts, the first of them written
\* with white space, and bytes that are not JSON.
Payloads ==
    {Bytes(TRUE, FALSE, "a"), Bytes(TRUE, FALSE, "b"), Bytes(TRUE, TRUE, "a"),
     Bytes(FALSE, FALSE, "g")}

\* Whether json.Marshal accepts the payload as a json.RawMessage.
validJSON(data) == data.valid

\* What json.Marshal writes for a json.RawMessage: the encoder compacts the
\* text a Marshaler returns.
compact(data) == [data EXCEPT !.spaced = FALSE]

NoFile == [kind |-> "absent"]

\* File contents json.Unmarshal rejects for an Entry: bytes that are not JSON,
\* and JSON of the wrong shape (an array, a string in a time field).
Unparseable == {[kind |-> "notjson"], [kind |-> "wrongtype"]}

\* `{}`: a JSON object without the entry's fields.
EmptyObject == [kind |-> "emptyobj"]

EntryFile(key, data, createdAt, expiresAt) ==
    [kind |-> "entry", key |-> key, data |-> data,
     createdAt |-> createdAt, expiresAt |-> expiresAt]

\* json.Unmarshal(data, &entry)
UnmarshalEntry(file) ==
    IF file \in Unparseable
    THEN [ok |-> FALSE]
    ELSE IF file = EmptyObject
    THEN [ok |-> TRUE, data |-> NilBytes, expiresAt |-> ZeroTime]
    ELSE [ok |-> TRUE, data |-> file.data, expiresAt |-> file.expiresAt]

\* `time.Now().After(entry.ExpiresAt)`
expiredAtOrAfter(t, expiresAt) == t >= expiresAt
expired(t, expiresAt) == t > expiresAt

\* Get's handling of a file json.Unmarshal rejects: os.Remove(path).
keepUnparseable(files, key) == files
removeUnparseable(files, key) == [files EXCEPT ![key] = NoFile]

\* `if !c.enabled { return ... }`, the first statement of Get and of Set.
offNever(enabled) == FALSE
off(enabled) == ~enabled

\* Get's handling of an entry past its ExpiresAt: os.Remove(path).
keepExpired(files, key) == files
removeExpired(files, key) == [files EXCEPT ![key] = NoFile]

\* Cache.Get(key): the returned (data, found) and the files afterwards.
Get(files, enabled, t, key) ==
    IF off(enabled)
    THEN [found |-> FALSE, data |-> NilBytes, files |-> files]
    ELSE IF files[key] = NoFile
    THEN [found |-> FALSE, data |-> NilBytes, files |-> files]
    ELSE LET e == UnmarshalEntry(files[key]) IN
         IF ~e.ok
         THEN [found |-> FALSE, data |-> NilBytes,
               files |-> removeUnparseable(files, key)]
         ELSE IF expired(t, e.expiresAt)
         THEN [found |-> FALSE, data |-> NilBytes,
               files |-> removeExpired(files, key)]
         ELSE [found |-> TRUE, data |-> e.data, files |-> files]

\* Cache.Set(key, data): the returned error and the files afterwards.
\* os.WriteFile does not create the directory.
Set(files, enabled, dirExists, ttl, t, key, data) ==
    IF off(enabled)
    THEN [err |-> "nil", files |-> files]
    ELSE IF ~validJSON(data)
    THEN [err |-> "marshal", files |-> files]
    ELSE IF ~dirExists
    THEN [err |-> "write", files |-> files]
    ELSE [err |-> "nil",
          files |-> [files EXCEPT
                       ![key] = EntryFile(key, compact(data), t, t + ttl)]]

\* The record of an operation: `pre` is the key's file before it.
Op(op, key, data, pre, found, ret, err) ==
    [op |-> op, key |-> key, data |-> data, pre |-> pre, found |-> found,
     ret |-> ret, err |-> err, at |-> now, enabled |-> c_enabled]

NoOp == [op |-> "none"]

CacheIdle ==
    /\ c_enabled = FALSE
    /\ c_ttl = 0
    /\ c_dirExists = FALSE
    /\ c_files = [k \in CacheKeys |-> NoFile]
    /\ c_last = NoOp

\* cache.New(dir, WithTTL(ttl), WithEnabled(enabled)): an enabled cache
\* creates its directory, a disabled one leaves the disk as it is.
New ==
    /\ c_enabled \in BOOLEAN
    /\ c_ttl \in TTLs
    /\ c_dirExists \in (IF c_enabled THEN {TRUE} ELSE BOOLEAN)
    /\ c_files = [k \in CacheKeys |-> NoFile]
    /\ c_last = NoOp

CacheGet(key) ==
    LET r == Get(c_files, c_enabled, now, key) IN
    /\ c_files' = r.files
    /\ c_last' = Op("Get", key, NilBytes, c_files[key], r.found, r.data, "nil")
    /\ UNCHANGED <<c_enabled, c_ttl, c_dirExists, now>>

CacheSet(key, data) ==
    LET r == Set(c_files, c_enabled, c_dirExists, c_ttl, now, key, data) IN
    /\ c_files' = r.files
    /\ c_last' = Op("Set", key, data, c_files[key], FALSE, NilBytes, r.err)
    /\ UNCHANGED <<c_enabled, c_ttl, c_dirExists, now>>

\* Clear's loop run as Delete's body: every file goes.
removeEvery(files, key) == [k \in DOMAIN files |-> NoFile]

\* os.Remove(c.getPath(key)) in Delete: the key's file goes, no other.
removeOne(files, key) == [files EXCEPT ![key] = NoFile]

\* Cache.Delete(key): os.Remove, a missing file is no error.
CacheDelete(key) ==
    /\ c_files' = removeOne(c_files, key)
    /\ c_last' = Op("Delete", key, NilBytes, c_files[key], FALSE, NilBytes, "nil")
    /\ UNCHANGED <<c_enabled, c_ttl, c_dirExists, now>>

\* Cache.Clear(): removes every *.json file; a missing directory is no error.
CacheClear ==
    /\ c_files' = [k \in DOMAIN c_files |-> NoFile]
    /\ c_last' = Op("Clear", "nil", NilBytes, NoFile, FALSE, NilBytes, "nil")
    /\ UNCHANGED <<c_enabled, c_ttl, c_dirExists, now>>

\* A sweep that takes every file, expired or not.
sweepsAll(file, t) == file # NoFile

\* CleanExpired's loop body: a file that json.Unmarshal rejects is removed,
\* and so is an entry for which time.Now().After(ExpiresAt).
sweeps(file, t) ==
    /\ file # NoFile
    /\ \/ ~UnmarshalEntry(file).ok
       \/ expired(t, UnmarshalEntry(file).expiresAt)

\* Cache.CleanExpired(): the number of files removed, and the files left.
CleanExpired(files, enabled, t) ==
    IF off(enabled)
    THEN [removed |-> 0, files |-> files]
    ELSE [removed |-> Cardinality({k \in DOMAIN files : sweeps(files[k], t)}),
          files |-> [k \in DOMAIN files |->
                        IF sweeps(files[k], t) THEN NoFile ELSE files[k]]]

CacheCleanExpired ==
    LET r == CleanExpired(c_files, c_enabled, now) IN
    /\ c_files' = r.files
    /\ c_last' = [op |-> "CleanExpired", key |-> "nil", err |-> "nil",
                  at |-> now, enabled |-> c_enabled, removed |-> r.removed]
    /\ UNCHANGED <<c_enabled, c_ttl, c_dirExists, now>>

\* Cache.SetEnabled(enabled)
CacheSetEnabled(enabled) ==
    /\ c_enabled' = enabled
    /\ c_last' = [Op("SetEnabled", "nil", NilBytes, NoFile, FALSE, NilBytes, "nil")
                    EXCEPT !.enabled = enabled]
    /\ UNCHANGED <<c_ttl, c_dirExists, c_files, now>>

\* Something outside the cache writes bytes that are no entry into a key's
\* file (a torn write, a disk fault, an editor).
Corrupt(key, content) ==
    /\ c_dirExists
    /\ c_files' = [c_files EXCEPT ![key] = content]
    /\ c_last' = Op("Corrupt", key, NilBytes, c_files[key], FALSE, NilBytes, "nil")
    /\ UNCHANGED <<c_enabled, c_ttl, c_dirExists, now>>

\* Time passes.
Tick ==
    /\ now < MaxTime
    /\ now' = now + 1

-----------------------------------------------------------------------------
(***************************************************************************)
(* location.Detector.DetectFromIP                                          *)
(***************************************************************************)

\* The providers in the order DetectFromIP tries them.
Providers == <<"ip-api.com", "ipinfo.io", "ipapi.co">>

\* Coordinates a provider may report, in whole degrees.
Lats == {-91, -90, 0, 30, 90, 91}
Lons == {-181, -180, 0, 31, 180, 181}

\* What a provider's HTTP exchange can yield: a transport error, a status
\* other than 200, a body that is not JSON, a body in which the provider
\* reports failure (ip-api.com: status # "success"; ipinfo.io: a "loc" that
\* is not "lat,lon"; ipapi.co: error = true), or a body with coordinates.
Replies ==
    {[kind |-> k] : k \in {"neterr", "status", "badjson", "refused"}}
        \cup {[kind |-> "coords", lat |-> la, lon |-> lo] :
                 la \in Lats, lo \in Lons}

\* The range tests of IsValid alone, without the test for (0, 0).
IsValidInRange(loc) ==
    /\ loc.lat >= -90 /\ loc.lat <= 90
    /\ loc.lon >= -180 /\ loc.lon <= 180

\* Location.IsValid
IsValid(loc) ==
    /\ loc.lat >= -90 /\ loc.lat <= 90
    /\ loc.lon >= -180 /\ loc.lon <= 180
    /\ (loc.lat # 0 \/ loc.lon # 0)

\* detectFromIPAPI / detectFromIPInfo / detectFromIPAPICo: the (*Location,
\* error) returned for a reply of provider p.
detectFrom(p, reply) ==
    IF reply.kind = "coords"
    THEN [err |-> "nil",
          loc |-> [lat |-> reply.lat, lon |-> reply.lon, source |-> "",
                   detectedAt |-> ZeroTime, provider |-> p]]
    ELSE [err |-> reply.kind, loc |-> NoResult]

\* `err == nil && loc.IsValid()`
acceptsUnvalidated(r) == r.err = "nil"
accepts(r) == r.err = "nil" /\ IsValid(r.loc)

\* `loc.Source = "ip"; loc.DetectedAt = time.Now()`
unstamped(loc, t) == loc
stamped(loc, t) == [loc EXCEPT !.source = "ip", !.detectedAt = t]

AllFailedErr == [kind |-> "all services failed"]

DetectIdle ==
    /\ d_pc = "idle"
    /\ d_calls = <<>>
    /\ d_replies = <<>>
    /\ d_result = NoResult

DetectInit ==
    /\ d_pc = "run"
    /\ d_calls = <<>>
    /\ d_replies = <<>>
    /\ d_result = NoResult

\* One of the three blocks of DetectFromIP: call the provider's adapter,
\* return its location if accepted, else go on to the next block.
TryProvider ==
    /\ d_pc = "run"
    /\ \E reply \in Replies :
         LET p == Len(d_calls) + 1
             r == detectFrom(p, reply) IN
         /\ d_calls' = Append(d_calls, p)
         /\ d_replies' = Append(d_replies, r)
         /\ IF accepts(r)
            THEN /\ d_pc' = "done"
                 /\ d_result' = [err |-> NoErr, loc |-> stamped(r.loc, now)]
            ELSE IF p = Len(Providers)
            THEN /\ d_pc' = "done"
                 /\ d_result' = [err |-> AllFailedErr, loc |-> NoResult]
            ELSE /\ d_pc' = "run"
                 /\ d_result' = d_result

-----------------------------------------------------------------------------
(***************************************************************************)
(* cache.GenerateKey and the parameter lists the CachedClient gives it     *)
(***************************************************************************)

\* A float64 coordinate is modelled as an integer number of 1e-5 degrees.
Degree == 10 * 10 * 10 * 10 * 10

Digit(d) ==
    CASE d = 0 -> "0" [] d = 1 -> "1" [] d = 2 -> "2" [] d = 3 -> "3"
      [] d = 4 -> "4" [] d = 5 -> "5" [] d = 6 -> "6" [] d = 7 -> "7"
      [] d = 8 -> "8" [] d = 9 -> "9"

RECURSIVE Natural(_)
\* The decimal digits of n >= 0.
Natural(n) == IF n < 10 THEN Digit(n) ELSE Natural(n \div 10) \o Digit(n % 10)

RECURSIVE Padded(_, _)
\* The last `width` decimal digits of n, zero-padded.
Padded(n, width) ==
    IF width = 0 THEN "" ELSE Padded(n \div 10, width - 1) \o Digit(n % 10)

RECURSIVE Fraction(_, _)
\* A fraction of `width` digits without its trailing zeros.
Fraction(f, width) ==
    IF f % 10 = 0 THEN Fraction(f \div 10, width - 1) ELSE Padded(f, width)

Abs(x) == IF x < 0 THEN 0 - x ELSE x
Sign(x) == IF x < 0 THEN "-" ELSE ""

\* fmt "%v" / "%d" of an int.
FormatInt(n) == Sign(n) \o Natural(Abs(n))

\* fmt "%v" of a float64 (strconv 'g', shortest form): no fraction for a
\* whole number, no trailing zeros, exponent form below 1e-4.
FormatFloat(x) ==
    LET a == Abs(x) IN
    Sign(x) \o
      (IF a % Degree = 0 THEN Natural(a \div Degree)
       ELSE IF a < 10 THEN Digit(a) \o "e-05"
       ELSE Natural(a \div Degree) \o "." \o Fraction(a % Degree, 5))

\* fmt.Sprintf("%.4f", x): four decimals, rounded to nearest.
FormatFixed4(x) ==
    LET q == (Abs(x) + 5) \div 10 IN
    Sign(x) \o Natural(q \div 10000) \o "." \o Padded(q % 10000, 4)

\* PrayerTimesParams.GetDateString: Date.Format("02-01-2006")
GetDateString(date) ==
    Padded(date.day, 2) \o "-" \o Padded(date.month, 2) \o "-"
        \o Padded(date.year, 4)

\* fmt "%v" of one parameter: a string prints as itself.
FormatV(p) ==
    CASE p.type = "string" -> p.v
      [] p.type = "int" -> FormatInt(p.v)
      [] p.type = "float64" -> FormatFloat(p.v)

StringParam(v) == [type |-> "string", v |-> v]
IntParam(v) == [type |-> "int", v |-> v]
FloatParam(v) == [type |-> "float64", v |-> v]

RECURSIVE Written(_)
\* What the loop `fmt.Fprintf(h, "%v", p)` writes into the hash.
Written(params) ==
    IF params = <<>> THEN ""
    ELSE FormatV(Head(params)) \o Written(Tail(params))

\* hex(sha256(text))[:16]: a function of the hashed text alone, taken to be
\* collision-free.
sha256hex16(text) == "sha256:" \o text

\* cache.GenerateKey(params...)
GenerateKeyWithoutLast(params) ==
    sha256hex16(Written(SubSeq(params, 1, Len(params) - 1)))
GenerateKey(params) == sha256hex16(Written(params))

\* The parameter list each CachedClient method passes to GenerateKey.
KeyParams(req) ==
    CASE req.kind = "times" ->
           <<StringParam("times"), FloatParam(req.lat), FloatParam(req.lon),
             StringParam(GetDateString(req.date)), IntParam(req.method)>>
      [] req.kind = "addr" ->
           <<StringParam("addr"), StringParam(req.address), StringParam(GetDateString(req.date)),
             IntParam(req.method)>>
      [] req.kind = "qibla" ->
           <<StringParam("qibla"), StringParam(FormatFixed4(req.lat)),
             StringParam(FormatFixed4(req.lon))>>

KeyOf(req) == GenerateKey(KeyParams(req))

NoDate == [day |-> 0, month |-> 0, year |-> 0]
Dates == {[day |-> 1, month |-> 1, year |-> 2025],
          [day |-> 11, month |-> 12, year |-> 2025]}
Methods == {5, 12}
Addresses == {"", "Cairo", "Giza"}

TimesRequest(lat, lon, date, method) ==
    [kind |-> "times", lat |-> lat, lon |-> lon, address |-> "",
     date |-> date, method |-> method]
AddressRequest(address, date, method) ==
    [kind |-> "addr", lat |-> 0, lon |-> 0, address |-> address,
     date |-> date, method |-> method]
\* A timings request with PrayerTimesParams.School set (1: Hanafi), which
\* ToQueryParams sends as "school".
TimesRequestForSchool(lat, lon, date, method, school) ==
    [kind |-> "times", lat |-> lat, lon |-> lon, address |-> "",
     date |-> date, method |-> method, school |-> school]
QiblaRequest(lat, lon) ==
    [kind |-> "qibla", lat |-> lat, lon |-> lon, address |-> "",
     date |-> NoDate, method |-> 0]

\* The requests of the key model: coordinates 1, 12, 1.5 / 3, 23, -0.5 for
\* the timings, 1.00001, 1.00002, 1.5 / 3, 23 for the Qibla.
KeyRequests ==
    {TimesRequest(la, lo, d, m) :
        la \in {Degree, 12 * Degree, 150000},
        lo \in {3 * Degree, 23 * Degree, -50000},
        d \in Dates, m \in Methods}
    \cup {AddressRequest(a, d, m) : a \in Addresses, d \in Dates, m \in Methods}
    \cup {QiblaRequest(la, lo) :
            la \in {100001, 100002, 150000}, lo \in {3 * Degree, 23 * Degree}}

KeyIdle ==
    /\ k_reqs = <<>>
    /\ k_keys = <<>>

KeyInit ==
    /\ k_reqs \in KeyRequests \X KeyRequests
    /\ k_keys = <<"", "">>

\* A CachedClient method derives the key of request i.
DeriveKey(i) ==
    /\ k_keys[i] = ""
    /\ k_keys' = [k_keys EXCEPT ![i] = KeyOf(k_reqs[i])]
    /\ UNCHANGED k_reqs

-----------------------------------------------------------------------------
(***************************************************************************)
(* api.CachedClient over api.Client and cache.Cache                        *)
(***************************************************************************)

\* The remote calls one behaviour makes at most.
MaxNetCalls == 2

\* The requests of the CachedClient model. The first two timings requests
\* (1, 23) and (12, 3) are given the same key.
ModelDate == [day |-> 1, month |-> 1, year |-> 2025]
CachedRequests ==
    {TimesRequest(Degree, 23 * Degree, ModelDate, 5),
     TimesRequestForSchool(Degree, 23 * Degree, ModelDate, 5, 1),
     TimesRequest(12 * Degree, 3 * Degree, ModelDate, 5),
     AddressRequest("", ModelDate, 5),
     AddressRequest("Cairo", ModelDate, 5),
     QiblaRequest(3 * Degree, 23 * Degree)}

\* The cache key of each request, GenerateKey over its key parameters.
RequestKeys == [req \in CachedRequests |-> KeyOf(req)]

RequestsOf(kind) == {req \in CachedRequests : req.kind = kind}

\* How a remote call of the Client ends once it is sent: a response with
\* code 200, a failed doRequestWithRetry (or a body that does not unmarshal),
\* or a response whose code is not 200.
RemoteOutcomes == {"ok", "neterr", "apierror"}

\* The response the remote API gives to the serial-th remote call.
Response(req, serial) == [for |-> req, serial |-> serial]

\* Client.GetPrayerTimes / GetPrayerTimesByAddress / GetQibla: the returned
\* (result, err) and the number of remote calls made. GetPrayerTimesByAddress
\* rejects an empty address before it sends anything.
addressRequired(req) == req.kind = "addr" /\ req.address = ""

clientFetch(req, outcome, serial) ==
    IF addressRequired(req)
    THEN [err |-> "address is required", result |-> NoResult, sent |-> 0]
    ELSE IF outcome = "ok"
    THEN [err |-> "nil", result |-> Response(req, serial), sent |-> 1]
    ELSE [err |-> outcome, result |-> NoResult, sent |-> 1]

\* json.Marshal(result)
Marshal(result) == Bytes(TRUE, FALSE, result)

\* JSON that does not decode into the response struct (a string, an object
\* whose "code" is a string): what an older or another writer left behind.
Foreign == Bytes(TRUE, FALSE, [kind |-> "foreign"])

\* json.Unmarshal(data, &result) into a response struct.
Unmarshal(data) ==
    IF data = NilBytes \/ data = Foreign
    THEN [ok |-> FALSE, result |-> NoResult]
    ELSE [ok |-> TRUE, result |-> data.value]

\* `cc.cache == nil || cc.bypass || !cc.cache.IsEnabled()`
skipsCacheIgnoringBypass(hasCache, bypass, enabled) == ~hasCache \/ ~enabled
skipsCache(hasCache, bypass, enabled) == ~hasCache \/ bypass \/ ~enabled

\* What to do with a cache entry that was found and decoded.
ignoresHit(hit) == FALSE
usesHit(hit) == hit

\* `if err != nil { return nil, err }` after the Client's call.
swallowed(err) == "nil"
propagated(err) == err

\* `cc.cache.Set(key, data)`: the error Set returns is not looked at.
surfaced(setErr) == setErr
ignored(setErr) == "nil"

\* The body shared by CachedClient.GetPrayerTimes, GetPrayerTimesByAddress
\* and GetQibla: the return, the remote calls made and the files afterwards.
cachedFetch(req, outcome) ==
    LET serial == net_calls + 1
        key == RequestKeys[req]
    IN
    IF skipsCache(cc_hasCache, cc_bypass, c_enabled)
    THEN LET r == clientFetch(req, outcome, serial) IN
         [src |-> "network", err |-> r.err, result |-> r.result,
          sent |-> r.sent, files |-> c_files, clientErr |-> r.err,
          setErr |-> "none", undecodable |-> FALSE]
    ELSE LET g == Get(c_files, c_enabled, now, key)
             u == Unmarshal(g.data)
         IN
         IF usesHit(g.found /\ u.ok)
         THEN [src |-> "cache", err |-> "nil", result |-> u.result,
               sent |-> 0, files |-> g.files, clientErr |-> "nil",
               setErr |-> "none", undecodable |-> FALSE]
         ELSE LET r == clientFetch(req, outcome, serial) IN
              IF r.err # "nil"
              THEN [src |-> "network", err |-> propagated(r.err),
                    result |-> NoResult, sent |-> r.sent, files |-> g.files,
                    clientErr |-> r.err, setErr |-> "none",
                    undecodable |-> g.found /\ ~u.ok]
              ELSE LET w == Set(g.files, c_enabled, c_dirExists, c_ttl, now,
                                key, Marshal(r.result))
                   IN
                   [src |-> "network", err |-> ignored(w.err),
                    result |-> r.result, sent |-> r.sent,
                    clientErr |-> "nil", files |-> w.files,
                    setErr |-> w.err, undecodable |-> g.found /\ ~u.ok]

\* Whether the key's file holds an entry that is not expired at time t.
HoldsFresh(files, key, t) ==
    /\ files[key].kind = "entry"
    /\ ~expired(t, files[key].expiresAt)

CachedCall(req, outcome) ==
    LET r == cachedFetch(req, outcome)
        key == RequestKeys[req]
    IN
    /\ net_calls + r.sent <= MaxNetCalls
    /\ c_files' = r.files
    /\ net_calls' = net_calls + r.sent
    /\ cc_last' = [req |-> req, src |-> r.src, err |-> r.err,
                   result |-> r.result, sent |-> r.sent,
                   clientErr |-> r.clientErr, setErr |-> r.setErr,
                   undecodable |-> r.undecodable, bypass |-> cc_bypass,
                   usedCache |-> ~skipsCache(cc_hasCache, cc_bypass, c_enabled),
                   fresh |-> HoldsFresh(c_files, key, now),
                   stored |-> IF c_files[key].kind = "entry"
                              THEN c_files[key].data.value ELSE NoResult,
                   until |-> IF r.files[key].kind = "entry"
                             THEN r.files[key].expiresAt ELSE ZeroTime]
    /\ UNCHANGED <<cc_hasCache, cc_bypass, c_enabled, c_ttl, c_dirExists,
                   c_last, now>>

\* CachedClient.GetPrayerTimes
GetPrayerTimes ==
    \E req \in RequestsOf("times"), o \in RemoteOutcomes : CachedCall(req, o)

\* CachedClient.GetPrayerTimesByAddress
GetPrayerTimesByAddress ==
    \E req \in RequestsOf("addr"), o \in RemoteOutcomes : CachedCall(req, o)

\* CachedClient.GetQibla
GetQibla ==
    \E req \in RequestsOf("qibla"), o \in RemoteOutcomes : CachedCall(req, o)

\* CachedClient.SetBypass(bypass)
SetBypass ==
    /\ cc_bypass' = ~cc_bypass
    /\ UNCHANGED <<cc_hasCache, cc_last, net_calls, cacheVars, now>>

NoCall == [src |-> "none"]

CachedIdle ==
    /\ cc_hasCache = FALSE
    /\ cc_bypass = FALSE
    /\ cc_last = NoCall
    /\ net_calls = 0

\* The key under which the directory may hold an entry from before.
LeftoverKey == RequestKeys[QiblaRequest(3 * Degree, 23 * Degree)]

\* NewCachedClient(client, WithCache(c), WithBypassCache(bypass)) over a
\* cache from cache.New, or over one that was built disabled, so that no
\* directory was made, and has been enabled since by SetEnabled(true). A
\* directory that exists may hold an unexpired entry whose payload is not a
\* response of this client (it matters where the client reads the cache).
NewCachedClient ==
    /\ cc_hasCache \in BOOLEAN
    /\ cc_bypass \in BOOLEAN
    /\ cc_last = NoCall
    /\ net_calls = 0
    /\ c_enabled \in BOOLEAN
    /\ c_ttl \in {1, 2}
    /\ c_dirExists \in BOOLEAN
    /\ c_files \in
         {[k \in {RequestKeys[req] : req \in CachedRequests} |->
              IF k \in old THEN EntryFile(k, Foreign, ZeroTime, MaxTime)
              ELSE NoFile] :
          old \in IF c_dirExists /\ c_enabled /\ cc_hasCache
                  THEN {{}, {LeftoverKey}} ELSE {{}}}
    /\ c_last = NoOp

-----------------------------------------------------------------------------
(***************************************************************************)
(* The fetch methods of api.Client: GetPrayerTimes, GetPrayerTimesByAddress,*)
(* GetQibla and GetCalendarMonth, each over one doRequestWithRetry call.   *)
(***************************************************************************)

\* A call of a fetch method: which one, and for GetPrayerTimesByAddress the
\* address given.
FetchCall(kind, address) == [kind |-> kind, address |-> address]

FetchCalls ==
    {FetchCall("times", ""), FetchCall("addr", ""), FetchCall("addr", "Cairo"),
     FetchCall("qibla", ""), FetchCall("calendar", "")}

\* The JSON a 2xx body can hold: its "code" and "status" fields.
Reply(code, status) == [json |-> TRUE, code |-> code, status |-> status]

\* A body json.Unmarshal rejects.
Undecodable == [json |-> FALSE]

BodyContents == {Undecodable, Reply(200, "OK"), Reply(400, "Bad Request")}

\* Whether the method tests `result.Code != 200`: GetCalendarMonth does not.
checksCodeNever(kind) == FALSE
checksCode(kind) == kind # "calendar"

\* The payload handed to the caller: `&result`, or `result.Data`.
Payload(content) == [kind |-> "payload", code |-> content.code]

\* What a fetch method returns, given doRequestWithRetry's return and the
\* content of the body.
decode(kind, ret, content) ==
    IF ret.err # NoErr
    THEN [payload |-> NoResult, err |-> [kind |-> "fetch", wraps |-> ret.err]]
    ELSE IF ~content.json
    THEN [payload |-> NoResult, err |-> [kind |-> "parse"]]
    ELSE IF checksCode(kind) /\ content.code # 200
    THEN [payload |-> NoResult,
          err |-> [kind |-> "api", status |-> content.status,
                   code |-> content.code]]
    ELSE [payload |-> Payload(content), err |-> NoErr]

FetchIdle ==
    /\ f_pc = "idle"
    /\ f_call = FetchCall("times", "")
    /\ f_received = NoResult
    /\ f_result = NoResult

\* A client built by NewClient(WithMaxRetries(n)) and a method called on it.
FetchInit ==
    /\ f_pc = "start"
    /\ f_call \in FetchCalls
    /\ f_received = NoResult
    /\ f_result = NoResult
    /\ r_pc = "idle"
    /\ r_maxRetries \in -1..MaxRetriesBound
    /\ r_attempt = 0
    /\ r_attempts = 0
    /\ r_ctxDone = FALSE
    /\ r_lastErr = NoErr
    /\ r_result = NoResult
    /\ r_waits = <<>>

\* The method's entry: GetPrayerTimesByAddress returns "address is required"
\* for an empty address, every other call goes on to doRequestWithRetry.
FetchEnter ==
    /\ f_pc = "start"
    /\ IF addressRequired(f_call)
       THEN /\ f_pc' = "done"
            /\ f_result' = [payload |-> NoResult,
                            err |-> [kind |-> "address is required"]]
            /\ r_pc' = r_pc
       ELSE /\ f_pc' = "wait"
            /\ f_result' = f_result
            /\ r_pc' = "call"
    /\ UNCHANGED <<f_call, f_received, r_maxRetries, r_attempt, r_attempts,
                   r_ctxDone, r_lastErr, r_result, r_waits>>

\* doRequestWithRetry has returned: json.Unmarshal, the code test, return.
FetchReturn ==
    /\ f_pc = "wait"
    /\ r_pc = "done"
    /\ \E content \in BodyContents :
          /\ f_received' = IF r_result.err = NoErr THEN content ELSE NoResult
          /\ f_result' = decode(f_call.kind, r_result, content)
    /\ f_pc' = "done"
    /\ UNCHANGED <<f_call, retryVars>>

-----------------------------------------------------------------------------
(***************************************************************************)
(* The pray commands that fetch prayer times: today, get, next, countdown  *)
(* and diff. Each run builds a plain api.Client and calls it.              *)
(***************************************************************************)

\* The requests the commands are run with: one by coordinates, two by
\* address.
CliRequests ==
    {TimesRequest(30 * Degree, 31 * Degree, ModelDate, 5),
     AddressRequest("Cairo", ModelDate, 5),
     AddressRequest("Giza", ModelDate, 5)}

CliOutcomes == {"ok", "neterr"}

NoRun == [cmd |-> "none"]

\* Whether every request of a run was fetched by an earlier run at this very
\* time, so that any cache with a positive TTL would still hold it.
Repeated(reqs) == \A req \in reqs : cli_fetched[req] = now

\* api.NewClient(...) followed by client.GetPrayerTimesByAddress or
\* client.GetPrayerTimes, as today, get, next and countdown do; today and get
\* go on to client.GetQibla when the qibla is shown and the coordinates are
\* not zero.
runFetch(cmd, req, noCache, qibla, outcome) ==
    LET r == clientFetch(req, outcome, 1) IN
    /\ cli_last' = [cmd |-> cmd, reqs |-> {req}, noCache |-> noCache,
                    repeated |-> Repeated({req}), err |-> r.err,
                    sent |-> r.sent,
                    qiblaSent |-> IF /\ r.err = "nil"
                                     /\ qibla
                                     /\ req.kind = "times"
                                     /\ req.lat # 0
                                     /\ req.lon # 0
                                  THEN 1 ELSE 0]
    /\ cli_fetched' = IF r.err = "nil"
                      THEN [cli_fetched EXCEPT ![req] = now]
                      ELSE cli_fetched
    /\ UNCHANGED now

\* pray today (fetchAndDisplayPrayerTimes)
Today ==
    \E req \in CliRequests, noCache \in BOOLEAN, qibla \in BOOLEAN,
       o \in CliOutcomes :
        runFetch("today", req, noCache, qibla, o)

\* pray get (fetchAndDisplayPrayerTimes)
GetCmd ==
    \E req \in CliRequests, noCache \in BOOLEAN, qibla \in BOOLEAN,
       o \in CliOutcomes :
        runFetch("get", req, noCache, qibla, o)

\* pray next
NextCmd ==
    \E req \in CliRequests, noCache \in BOOLEAN, o \in CliOutcomes :
        runFetch("next", req, noCache, FALSE, o)

\* pray countdown
Countdown ==
    \E req \in CliRequests, noCache \in BOOLEAN, o \in CliOutcomes :
        runFetch("countdown", req, noCache, FALSE, o)

\* pray diff: two goroutines, one client.GetPrayerTimesByAddress each.
Diff ==
    \E req1 \in {q \in CliRequests : q.kind = "addr"},
       req2 \in {q \in CliRequests : q.kind = "addr"},
       noCache \in BOOLEAN, o1 \in CliOutcomes, o2 \in CliOutcomes :
        LET r1 == clientFetch(req1, o1, 1)
            r2 == clientFetch(req2, o2, 2)
            got == (IF r1.err = "nil" THEN {req1} ELSE {})
                       \cup (IF r2.err = "nil" THEN {req2} ELSE {})
        IN
        /\ cli_last' = [cmd |-> "diff", reqs |-> {req1, req2},
                        noCache |-> noCache,
                        repeated |-> Repeated({req1, req2}),
                        err |-> IF r1.err # "nil" THEN r1.err ELSE r2.err,
                        sent |-> r1.sent + r2.sent, qiblaSent |-> 0]
        /\ cli_fetched' = [req \in CliRequests |->
                              IF req \in got THEN now ELSE cli_fetched[req]]
        /\ UNCHANGED now

CliIdle ==
    /\ cli_last = NoRun
    /\ cli_fetched = << >>

CliInit ==
    /\ cli_last = NoRun
    /\ cli_fetched = [req \in CliRequests |-> ZeroTime]

-----------------------------------------------------------------------------
(***************************************************************************)
(* The goroutines of one command: runDiffCommand's two fetchers, the       *)
(* spinner of the calendar download, the update check of PersistentPostRun *)
(***************************************************************************)

\* len(Spinner.frames)
NumFrames == 10

Commands == {"diff", "calendar"}

Fetchers == {1, 2}

\* What a fetcher puts on its channel: result{resp, err}.
FetchResult(failed) == [kind |-> "result", err |-> failed]

\* What Checker.Check yields for the channel: nil after an error, else a
\* *CheckResult.
NilResult == [kind |-> "nil"]
CheckResult(available) == [kind |-> "check", UpdateAvailable |-> available]
CheckResults == {NilResult, CheckResult(TRUE), CheckResult(FALSE)}

\* runDiffCommand after both receives, with only r1.err tested.
verdictOfFirst(r1, r2) == IF r1.err THEN "error1" ELSE "rendered"

\* runDiffCommand after both receives: r1.err, then r2.err, then the render.
verdict(r1, r2) ==
    IF r1.err THEN "error1" ELSE IF r2.err THEN "error2" ELSE "rendered"

\* A select in which a later event replaces the case already chosen.
selectedLast(sel, event) == event

\* The select of PersistentPostRun, blocked on the result channel and on
\* ctx.Done(): the first of the two events chooses the case.
selected(sel, event) == IF sel = "none" THEN event ELSE sel

\* `result != nil && result.UpdateAvailable`
notice(result) == result # NilResult /\ result.UpdateAvailable

ProcIdle ==
    /\ p_cmd = "none"
    /\ p_updateCheck = FALSE
    /\ p_pc = "idle"
    /\ p_out = "none"
    /\ g_pc = [i \in Fetchers |-> "none"]
    /\ g_ch = [i \in Fetchers |-> << >>]
    /\ p_r = [i \in Fetchers |-> NoResult]
    /\ s_running = FALSE
    /\ s_done = FALSE
    /\ s_frameIdx = 0
    /\ s_pc = "none"
    /\ u_pc = "none"
    /\ u_ch = << >>
    /\ u_ctxDone = FALSE
    /\ u_sel = "none"
    /\ u_printed = FALSE
    /\ u_events = << >>

\* A command at the start of its RunE, with cfg.UpdateCheck && !quiet
\* either way.
ProcInit ==
    /\ p_cmd \in Commands
    /\ p_updateCheck \in BOOLEAN
    /\ p_pc = "run"
    /\ p_out = "none"
    /\ g_pc = [i \in Fetchers |-> "none"]
    /\ g_ch = [i \in Fetchers |-> << >>]
    /\ p_r = [i \in Fetchers |-> NoResult]
    /\ s_running = FALSE
    /\ s_done = FALSE
    /\ s_frameIdx = 0
    /\ s_pc = "none"
    /\ u_pc = "none"
    /\ u_ch = << >>
    /\ u_ctxDone = FALSE
    /\ u_sel = "none"
    /\ u_printed = FALSE
    /\ u_events = << >>

diffVars == <<g_pc, g_ch, p_r>>
spinVars == <<s_running, s_done, s_frameIdx, s_pc>>
updVars == <<u_pc, u_ch, u_ctxDone, u_sel, u_printed, u_events>>

\* runDiffCommand: the two `go func()` statements, then `r1 := <-ch1`.
StartFetchers ==
    /\ p_pc = "run" /\ p_cmd = "diff"
    /\ g_pc' = [i \in Fetchers |-> "fetching"]
    /\ p_pc' = "recv1"
    /\ UNCHANGED <<p_cmd, p_updateCheck, p_out, g_ch, p_r, spinVars, updVars>>

\* A fetcher: GetPrayerTimesByAddress returns, the result goes into the
\* fetcher's channel (capacity 1, so the send never blocks), the function
\* returns.
Fetcher(i, failed) ==
    /\ p_pc # "exit"
    /\ g_pc[i] = "fetching"
    /\ g_ch' = [g_ch EXCEPT ![i] = Append(@, FetchResult(failed))]
    /\ g_pc' = [g_pc EXCEPT ![i] = "done"]
    /\ UNCHANGED <<p_cmd, p_updateCheck, p_pc, p_out, p_r, spinVars, updVars>>

\* `r1 := <-ch1`, then `r2 := <-ch2`.
Receive ==
    LET i == IF p_pc = "recv1" THEN 1 ELSE 2 IN
    /\ p_pc \in {"recv1", "recv2"}
    /\ g_ch[i] # << >>
    /\ p_r' = [p_r EXCEPT ![i] = Head(g_ch[i])]
    /\ g_ch' = [g_ch EXCEPT ![i] = Tail(@)]
    /\ p_pc' = IF p_pc = "recv1" THEN "recv2" ELSE "check"
    /\ UNCHANGED <<p_cmd, p_updateCheck, p_out, g_pc, spinVars, updVars>>

\* The two error tests and the render. An error makes RunE fail: cobra
\* skips PersistentPostRun, main prints the error and exits.
Render ==
    /\ p_pc = "check"
    /\ p_out' = verdict(p_r[1], p_r[2])
    /\ p_pc' = IF p_out' = "rendered" THEN "postrun" ELSE "exit"
    /\ UNCHANGED <<p_cmd, p_updateCheck, diffVars, spinVars, updVars>>

\* Spinner.Start, from the calendar command.
Start ==
    /\ p_pc = "run" /\ p_cmd = "calendar"
    /\ ~s_running
    /\ s_running' = TRUE
    /\ s_pc' = "loop"
    /\ p_pc' = "download"
    /\ UNCHANGED <<p_cmd, p_updateCheck, p_out, diffVars, s_done, s_frameIdx,
                   updVars>>

\* The spinner goroutine on `case <-ticker.C`: returns when the spinner is
\* not running, prints the next frame otherwise.
SpinnerTick ==
    /\ p_pc # "exit"
    /\ s_pc = "loop"
    /\ IF ~s_running
       THEN s_pc' = "done" /\ UNCHANGED s_frameIdx
       ELSE s_frameIdx' = (s_frameIdx + 1) % NumFrames /\ UNCHANGED s_pc
    /\ UNCHANGED <<p_cmd, p_updateCheck, p_pc, p_out, diffVars, s_running,
                   s_done, updVars>>

\* The spinner goroutine on `case <-s.done`.
SpinnerDone ==
    /\ p_pc # "exit"
    /\ s_pc = "loop"
    /\ s_done
    /\ s_pc' = "done"
    /\ UNCHANGED <<p_cmd, p_updateCheck, p_pc, p_out, diffVars, s_running,
                   s_done, s_frameIdx, updVars>>

\* DownloadToFile returns; Spinner.Stop after a success, Spinner.Fail and
\* the error return after a failure. Both set running = false and close
\* s.done; neither waits for the goroutine.
Stop(failed) ==
    /\ p_pc = "download"
    /\ s_running
    /\ s_running' = FALSE
    /\ s_done' = TRUE
    /\ p_out' = IF failed THEN "error" ELSE "saved"
    /\ p_pc' = IF failed THEN "exit" ELSE "postrun"
    /\ UNCHANGED <<p_cmd, p_updateCheck, diffVars, s_frameIdx, s_pc, updVars>>

\* PersistentPostRun when the update check is off: the command is over.
PostRunSkip ==
    /\ p_pc = "postrun"
    /\ ~p_updateCheck
    /\ p_pc' = "exit"
    /\ UNCHANGED <<p_cmd, p_updateCheck, p_out, diffVars, spinVars, updVars>>

\* PersistentPostRun: context.WithTimeout(3 s), checker.CheckAsync(ctx)
\* starts the goroutine, and the select blocks with neither case ready.
CheckAsync ==
    /\ p_pc = "postrun"
    /\ p_updateCheck
    /\ u_pc' = "checking"
    /\ p_pc' = "select"
    /\ UNCHANGED <<p_cmd, p_updateCheck, p_out, diffVars, spinVars, u_ch,
                   u_ctxDone, u_sel, u_printed, u_events>>

\* The update goroutine: c.Check(ctx) returns and its result (nil after an
\* error) is sent on resultChan, which has capacity 1.
CheckSends(result) ==
    /\ p_pc # "exit"
    /\ u_pc = "checking"
    /\ u_ch' = Append(u_ch, result)
    /\ u_pc' = "sent"
    /\ u_sel' = selected(u_sel, "result")
    /\ u_events' = Append(u_events, "result")
    /\ UNCHANGED <<p_cmd, p_updateCheck, p_pc, p_out, diffVars, spinVars,
                   u_ctxDone, u_printed>>

\* The update goroutine: close(resultChan), and the function returns.
CheckCloses ==
    /\ p_pc # "exit"
    /\ u_pc = "sent"
    /\ u_pc' = "done"
    /\ UNCHANGED <<p_cmd, p_updateCheck, p_pc, p_out, diffVars, spinVars,
                   u_ch, u_ctxDone, u_sel, u_printed, u_events>>

\* The 3 s deadline of ctx fires while the command is in the select
\* (the statements between WithTimeout and the select take no such time).
DeadlineFires ==
    /\ p_pc = "select"
    /\ ~u_ctxDone
    /\ u_ctxDone' = TRUE
    /\ u_sel' = selected(u_sel, "ctx")
    /\ u_events' = Append(u_events, "deadline")
    /\ UNCHANGED <<p_cmd, p_updateCheck, p_pc, p_out, diffVars, spinVars,
                   u_pc, u_ch, u_printed>>

\* The chosen case of the select runs: the notice is printed for a result
\* with an update, nothing on ctx.Done(); PersistentPostRun returns and
\* the process exits.
Selected ==
    /\ p_pc = "select"
    /\ u_sel # "none"
    /\ u_printed' = (u_sel = "result" /\ notice(Head(u_ch)))
    /\ u_ch' = IF u_sel = "result" THEN Tail(u_ch) ELSE u_ch
    /\ p_pc' = "exit"
    /\ UNCHANGED <<p_cmd, p_updateCheck, p_out, diffVars, spinVars, u_pc,
                   u_ctxDone, u_sel, u_events>>

-----------------------------------------------------------------------------
(***************************************************************************)
(* Cache.Set and Cache.Get of several processes on one key's file          *)
(***************************************************************************)

\* The processes calling Set, and the lengths their entries can have.
Setters == {1, 2}
EntryLens == {1, 2}

\* No inode: the path does not exist, a descriptor is not open.
NoInode == 0

\* The bytes json.Marshal(entry) gives setter w for an entry of length n:
\* each byte is tagged with the Set that wrote it.
EntryBytes(w, n) == [j \in 1..n |-> <<w, j>>]

\* The entries some Set writes.
Entries == {EntryBytes(w, n) : w \in Setters, n \in EntryLens}

\* f.Write(data) on a descriptor at offset 0: data replaces the first
\* Len(data) bytes of the file and what lies beyond them stays.
WriteAt0(content, data) ==
    data \o SubSeq(content, Len(data) + 1, Len(content))

\* json.Unmarshal(data, &entry) in Get: succeeds on exactly one entry.
parses(content) == content \in Entries

\* What Get returns for a file content that was read: the payload named by
\* its writer, or not found.
NotFound == [found |-> FALSE]
Found(content) == [found |-> TRUE, by |-> content[1][1], len |-> Len(content)]

RaceIdle ==
    /\ fs_path = NoInode
    /\ fs_inodes = << >>
    /\ set_pc = [w \in Setters |-> "idle"]
    /\ set_fd = [w \in Setters |-> NoInode]
    /\ set_data = [w \in Setters |-> << >>]
    /\ set_order = << >>
    /\ get_pc = "idle"
    /\ get_ret = NoResult
    /\ get_removed = << >>

\* Two processes about to Set the same key, each with its own payload, and
\* one process about to Get it; the key has no file yet.
RaceInit ==
    /\ fs_path = NoInode
    /\ fs_inodes = << >>
    /\ set_pc = [w \in Setters |-> "start"]
    /\ set_fd = [w \in Setters |-> NoInode]
    /\ set_data \in {[w \in Setters |-> EntryBytes(w, n[w])] :
                        n \in [Setters -> EntryLens]}
    /\ set_order = << >>
    /\ get_pc = "start"
    /\ get_ret = NoResult
    /\ get_removed = << >>

\* Set, first half: os.WriteFile opens the path with O_CREATE|O_TRUNC. A
\* missing file is created, an existing one is cut to length 0.
SetOpen(w) ==
    /\ set_pc[w] = "start"
    /\ IF fs_path = NoInode
       THEN /\ fs_inodes' = Append(fs_inodes, << >>)
            /\ fs_path' = Len(fs_inodes) + 1
       ELSE /\ fs_inodes' = [fs_inodes EXCEPT ![fs_path] = << >>]
            /\ UNCHANGED fs_path
    /\ set_fd' = [set_fd EXCEPT ![w] = fs_path']
    /\ set_pc' = [set_pc EXCEPT ![w] = "open"]
    /\ UNCHANGED <<set_data, set_order, get_pc, get_ret, get_removed>>

\* Set, second half: the write through the descriptor, the close, and the
\* return of nil.
SetWrite(w) ==
    /\ set_pc[w] = "open"
    /\ fs_inodes' = [fs_inodes EXCEPT
                        ![set_fd[w]] = WriteAt0(@, set_data[w])]
    /\ set_pc' = [set_pc EXCEPT ![w] = "done"]
    /\ set_order' = Append(set_order, w)
    /\ UNCHANGED <<fs_path, set_fd, set_data, get_pc, get_ret, get_removed>>

\* Get, first half: os.ReadFile and json.Unmarshal. A missing file is not
\* found, an entry is returned, anything else is to be removed.
GetRead ==
    /\ get_pc = "start"
    /\ IF fs_path = NoInode
       THEN get_pc' = "done" /\ get_ret' = NotFound
       ELSE IF parses(fs_inodes[fs_path])
       THEN get_pc' = "done" /\ get_ret' = Found(fs_inodes[fs_path])
       ELSE get_pc' = "remove" /\ UNCHANGED get_ret
    /\ UNCHANGED <<fs_path, fs_inodes, set_pc, set_fd, set_data, set_order,
                   get_removed>>

\* Get, second half: os.Remove(path), whatever the path holds by now.
GetRemove ==
    /\ get_pc = "remove"
    /\ get_removed' = IF fs_path = NoInode THEN << >> ELSE fs_inodes[fs_path]
    /\ fs_path' = NoInode
    /\ get_pc' = "done"
    /\ get_ret' = NotFound
    /\ UNCHANGED <<fs_inodes, set_pc, set_fd, set_data, set_order>>

-----------------------------------------------------------------------------
(***************************************************************************)
(* location.Detector.DetectFromIP under the caller's context, with time    *)
(* in seconds                                                              *)
(***************************************************************************)

\* DefaultDetectionTimeout, the Timeout of the Detector's http.Client: it
\* applies to each request on its own.
DefaultDetectionTimeout == 10

\* The deadlines the callers put on ctx: 15 s (today, next, countdown, the
\* wizard) and 30 s (config detect).
CallerDeadlines == {15, 30}

\* How long a provider takes to answer; DefaultDetectionTimeout and more is
\* a provider that hangs.
Durations == {0, 5, 10}

\* What a provider that answers in time can yield.
TimedReplies ==
    {r \in Replies :
        \/ r.kind = "status"
        \/ r.kind = "coords" /\ r.lat = 30 /\ r.lon = 31
        \/ r.kind = "coords" /\ r.lat = 0 /\ r.lon = 0}

Min(a, b) == IF a < b THEN a ELSE b

\* Detector.doRequest under ctx, entered with `remaining` seconds before
\* the deadline of ctx: a context that is done fails the request before it
\* is sent; otherwise the request runs until the provider answers, the
\* client's Timeout passes, or ctx is done, whichever is first.
timedRequest(ctxDone, remaining, dur, cancelAt, reply) ==
    LET limit == Min(DefaultDetectionTimeout, remaining) IN
    IF ctxDone
    THEN [contacted |-> FALSE, took |-> 0, reply |-> [kind |-> "neterr"],
          cause |-> "ctx"]
    ELSE IF cancelAt < Min(dur, limit)
    THEN [contacted |-> TRUE, took |-> cancelAt, reply |-> [kind |-> "neterr"],
          cause |-> "ctx"]
    ELSE IF dur >= limit
    THEN [contacted |-> TRUE, took |-> limit, reply |-> [kind |-> "neterr"],
          cause |-> IF remaining <= DefaultDetectionTimeout
                    THEN "ctx" ELSE "timeout"]
    ELSE [contacted |-> TRUE, took |-> dur, reply |-> reply, cause |-> "reply"]

\* Never cancelled by the caller.
Never == 2 * DefaultDetectionTimeout

TimedIdle ==
    /\ t_pc = "idle"
    /\ t_deadline = 0
    /\ t_elapsed = 0
    /\ t_cancelled = FALSE
    /\ t_attempts = << >>
    /\ t_result = NoResult

\* DetectFromIP(ctx) is entered, ctx with one of the callers' deadlines.
TimedInit ==
    /\ t_pc = "run"
    /\ t_deadline \in CallerDeadlines
    /\ t_elapsed = 0
    /\ t_cancelled = FALSE
    /\ t_attempts = << >>
    /\ t_result = NoResult

\* One of the three blocks of DetectFromIP, with the time it takes: the
\* provider's adapter is called whatever the state of ctx, its location is
\* returned if accepted, and after the third block the fixed error is.
TimedProvider ==
    /\ t_pc = "run"
    /\ \E dur \in Durations, reply \in TimedReplies,
          cancelAt \in {0, 5, Never} :
         LET p == Len(t_attempts) + 1
             remaining == t_deadline - t_elapsed
             q == timedRequest(t_cancelled \/ remaining <= 0, remaining,
                               dur, cancelAt, reply)
             r == detectFrom(p, q.reply) IN
         /\ t_attempts' = Append(t_attempts,
                                 [provider |-> p, remaining |-> remaining,
                                  ctxDone |-> t_cancelled \/ remaining <= 0,
                                  contacted |-> q.contacted, took |-> q.took,
                                  cause |-> q.cause])
         /\ t_elapsed' = t_elapsed + q.took
         /\ t_cancelled' = (t_cancelled \/ (q.contacted /\ cancelAt = q.took
                                              /\ q.cause = "ctx"
                                              /\ cancelAt < remaining))
         /\ IF accepts(r)
            THEN /\ t_pc' = "done"
                 /\ t_result' = [err |-> NoErr, loc |-> stamped(r.loc, now)]
            ELSE IF p = Len(Providers)
            THEN /\ t_pc' = "done"
                 /\ t_result' = [err |-> AllFailedErr, loc |-> NoResult]
            ELSE /\ t_pc' = "run"
                 /\ t_result' = t_result
    /\ UNCHANGED t_deadline

-----------------------------------------------------------------------------
(***************************************************************************)
(* ui.Spinner under any sequence of calls of its methods                   *)
(***************************************************************************)

\* The number of method calls made on the one Spinner.
MaxCalls == 4

Messages == {"Detecting...", "Downloading..."}

SpinnerIdle ==
    /\ sp_calls = << >>
    /\ sp_running = FALSE
    /\ sp_message = ""
    /\ sp_closes = 0
    /\ sp_live = 0
    /\ sp_panicked = FALSE

\* NewSpinner(message): not running, done made and open.
NewSpinner ==
    /\ sp_calls = <<"NewSpinner">>
    /\ sp_running = FALSE
    /\ sp_message \in Messages
    /\ sp_closes = 0
    /\ sp_live = 0
    /\ sp_panicked = FALSE

\* Spinner.Start: nothing when running, else running = true and a new
\* goroutine; s.done is not made anew.
SpinnerStart ==
    /\ ~sp_panicked /\ Len(sp_calls) <= MaxCalls
    /\ sp_calls' = Append(sp_calls, "Start")
    /\ IF sp_running
       THEN UNCHANGED <<sp_running, sp_live>>
       ELSE sp_running' = TRUE /\ sp_live' = sp_live + 1
    /\ UNCHANGED <<sp_message, sp_closes, sp_panicked>>

\* Spinner.Stop, Success and Fail: nothing when not running, else
\* running = false and close(s.done); closing a closed channel panics.
SpinnerStop(method) ==
    /\ ~sp_panicked /\ Len(sp_calls) <= MaxCalls
    /\ sp_calls' = Append(sp_calls, method)
    /\ IF ~sp_running
       THEN UNCHANGED <<sp_running, sp_closes, sp_panicked>>
       ELSE /\ sp_running' = FALSE
            /\ sp_closes' = sp_closes + 1
            /\ sp_panicked' = (sp_closes >= 1)
    /\ UNCHANGED <<sp_message, sp_live>>

\* Spinner.Update(message)
SpinnerUpdate(message) ==
    /\ ~sp_panicked /\ Len(sp_calls) <= MaxCalls
    /\ sp_calls' = Append(sp_calls, "Update")
    /\ sp_message' = message
    /\ UNCHANGED <<sp_running, sp_closes, sp_live, sp_panicked>>

\* A goroutine of Start returns on `case <-s.done`, once done is closed.
SpinnerReturn ==
    /\ ~sp_panicked
    /\ sp_live > 0
    /\ sp_closes >= 1
    /\ sp_live' = sp_live - 1
    /\ UNCHANGED <<sp_calls, sp_running, sp_message, sp_closes, sp_panicked>>

-----------------------------------------------------------------------------
(***************************************************************************)
(* parseDate on a weekday name: getNextWeekday                             *)
(***************************************************************************)

\* Days are counted from 1970-01-01, a Thursday; `from` is one of the first
\* MaxDay + 1 of them.
MaxDay == 20

\* time.Weekday: Sunday = 0 .. Saturday = 6.
Weekdays == 0..6

\* Time.Weekday() of a day.
Weekday(day) == (day + 4) % 7

\* A variant that adds the week only to a negative difference.
getNextWeekdayOrToday(from, targetWeekday) ==
    LET daysUntil == targetWeekday - Weekday(from) IN
    from + (IF daysUntil < 0 THEN daysUntil + 7 ELSE daysUntil)

\* getNextWeekday(from, targetWeekday), as a day
getNextWeekday(from, targetWeekday) ==
    LET daysUntil == targetWeekday - Weekday(from) IN
    from + (IF daysUntil <= 0 THEN daysUntil + 7 ELSE daysUntil)

DateIdle ==
    /\ wd_from = 0
    /\ wd_target = 0
    /\ wd_result = NoResult

\* `pray get <weekday>` on some day.
DateInit ==
    /\ wd_from \in 0..MaxDay
    /\ wd_target \in Weekdays
    /\ wd_result = NoResult

\* parseDate: `return getNextWeekday(now, targetWeekday), nil`
parseDate ==
    /\ wd_result = NoResult
    /\ wd_result' = [day |-> getNextWeekday(wd_from, wd_target)]
    /\ UNCHANGED <<wd_from, wd_target>>

-----------------------------------------------------------------------------
(***************************************************************************)
(* The location of the today/get and next commands: which one is chosen,   *)
(* which one the timings are fetched for                                   *)
(***************************************************************************)

\* What DetectFromIP finds, what the coordinate flags give, and what the
\* saved config holds.
DetectedPlace == [lat |-> 41, lon |-> 29, str |-> "Istanbul"]
FlagPlace == [lat |-> 30, lon |-> 31, str |-> "30.0000, 31.0000"]
ConfigPlace == [lat |-> 24, lon |-> 46, str |-> "Riyadh"]

\* The flags of a run: the command, --auto, -a, --lat/--lon given, a
\* configured location, --save.
FlagSets ==
    [cmd : {"today", "next"}, auto : BOOLEAN, address : {"", "Cairo"},
     coords : BOOLEAN, configured : BOOLEAN, save : BOOLEAN]

\* The `if autoDetect ... else if address != "" ... else if latitude != 0 ||
\* longitude != 0 ... else if cfg.IsConfigured()` chain: lat, lon and
\* locationStr, the location that is displayed.
selectLocation(flags) ==
    IF flags.auto
    THEN [by |-> "auto", lat |-> DetectedPlace.lat, lon |-> DetectedPlace.lon,
          str |-> DetectedPlace.str]
    ELSE IF flags.address # ""
    THEN [by |-> "address", lat |-> 0, lon |-> 0, str |-> flags.address]
    ELSE IF flags.coords
    THEN [by |-> "coords", lat |-> FlagPlace.lat, lon |-> FlagPlace.lon,
          str |-> FlagPlace.str]
    ELSE IF flags.configured
    THEN [by |-> "config", lat |-> ConfigPlace.lat, lon |-> ConfigPlace.lon,
          str |-> ConfigPlace.str]
    ELSE [by |-> "none", lat |-> 0, lon |-> 0, str |-> ""]

\* `if address != "" { GetPrayerTimesByAddress } else { GetPrayerTimes }`:
\* what the timings are fetched for.
fetchFor(flags, sel) ==
    IF flags.address # ""
    THEN [kind |-> "addr", address |-> flags.address]
    ELSE [kind |-> "coords", lat |-> sel.lat, lon |-> sel.lon]

\* The location part of the --save block of the today command.
saveLocation(flags) ==
    IF ~(flags.save /\ flags.cmd = "today") THEN "none"
    ELSE IF flags.auto THEN "auto"
    ELSE IF flags.address # "" THEN "address"
    ELSE IF flags.coords THEN "coords"
    ELSE "unchanged"

LocIdle ==
    /\ l_flags = NoResult
    /\ l_out = NoResult

LocInit ==
    /\ l_flags \in FlagSets
    /\ l_out = NoResult

\* fetchAndDisplayPrayerTimes / runNextCommand up to the fetch.
runCommand(detected) ==
    LET sel == selectLocation(l_flags) IN
    /\ l_out = NoResult
    /\ l_out' =
         IF l_flags.auto /\ ~detected
         THEN [kind |-> "error", err |-> "failed to auto-detect location"]
         ELSE IF sel.by = "none"
         THEN [kind |-> "welcome"]
         ELSE [kind |-> "fetched", chosen |-> sel,
               fetched |-> fetchFor(l_flags, sel),
               saved |-> saveLocation(l_flags)]
    /\ UNCHANGED l_flags

\* The components added for the later claims, at rest.
ConcIdle ==
    ProcIdle /\ RaceIdle /\ TimedIdle /\ SpinnerIdle /\ DateIdle /\ LocIdle

-----------------------------------------------------------------------------
(***************************************************************************)
(* Specifications                                                          *)
(***************************************************************************)

RetryNext ==
    \/ Call /\ UNCHANGED <<concVars, cacheVars, now, detVars, keyVars, ccVars, cliVars, fetchVars>>
    \/ FinishAttempt /\ UNCHANGED <<concVars, cacheVars, now, detVars, keyVars, ccVars, cliVars, fetchVars>>
    \/ BackoffCancelled /\ UNCHANGED <<concVars, cacheVars, now, detVars, keyVars, ccVars, cliVars, fetchVars>>
    \/ BackoffElapsed /\ UNCHANGED <<concVars, cacheVars, now, detVars, keyVars, ccVars, cliVars, fetchVars>>
    \/ Cancel /\ UNCHANGED <<concVars, cacheVars, now, detVars, keyVars, ccVars, cliVars, fetchVars>>

RetrySpecInit ==
    RetryInit /\ ConcIdle /\ CacheIdle /\ DetectIdle /\ KeyIdle /\ CachedIdle /\ CliIdle /\ FetchIdle /\ now = 1

RetrySpec == RetrySpecInit /\ [][RetryNext]_vars

CacheNext ==
    \/ \E k \in CacheKeys : CacheGet(k) /\ UNCHANGED <<concVars, retryVars, detVars, keyVars, ccVars, cliVars, fetchVars>>
    \/ \E k \in CacheKeys, d \in Payloads :
          CacheSet(k, d) /\ UNCHANGED <<concVars, retryVars, detVars, keyVars, ccVars, cliVars, fetchVars>>
    \/ \E k \in CacheKeys : CacheDelete(k) /\ UNCHANGED <<concVars, retryVars, detVars, keyVars, ccVars, cliVars, fetchVars>>
    \/ CacheClear /\ UNCHANGED <<concVars, retryVars, detVars, keyVars, ccVars, cliVars, fetchVars>>
    \/ CacheCleanExpired /\ UNCHANGED <<concVars, retryVars, detVars, keyVars, ccVars, cliVars, fetchVars>>
    \/ \E b \in BOOLEAN : CacheSetEnabled(b) /\ UNCHANGED <<concVars, retryVars, detVars, keyVars, ccVars, cliVars, fetchVars>>
    \/ \E k \in CacheKeys, c \in Unparseable \cup {EmptyObject} :
          Corrupt(k, c) /\ UNCHANGED <<concVars, retryVars, detVars, keyVars, ccVars, cliVars, fetchVars>>
    \/ Tick /\ UNCHANGED <<concVars, retryVars, cacheVars, detVars, keyVars, ccVars, cliVars, fetchVars>>

CacheSpecInit ==
    New /\ ConcIdle /\ RetryIdle /\ DetectIdle /\ KeyIdle /\ CachedIdle /\ CliIdle /\ FetchIdle /\ now = 1

CacheSpec == CacheSpecInit /\ [][CacheNext]_vars

DetectNext ==
    \/ TryProvider /\ UNCHANGED <<concVars, retryVars, cacheVars, now, keyVars, ccVars, cliVars, fetchVars>>

DetectSpecInit ==
    /\ DetectInit /\ ConcIdle /\ RetryIdle /\ CacheIdle /\ KeyIdle /\ CachedIdle /\ CliIdle /\ FetchIdle
    /\ now \in 1..MaxTime

DetectSpec == DetectSpecInit /\ [][DetectNext]_vars


KeyNext ==
    \/ \E i \in 1..2 :
          DeriveKey(i)
            /\ UNCHANGED <<concVars, retryVars, cacheVars, now, detVars, ccVars, cliVars, fetchVars>>

KeySpecInit ==
    KeyInit /\ ConcIdle /\ RetryIdle /\ CacheIdle /\ DetectIdle /\ CachedIdle /\ CliIdle /\ FetchIdle /\ now = 1

KeySpec == KeySpecInit /\ [][KeyNext]_vars

CachedNext ==
    \/ GetPrayerTimes /\ UNCHANGED <<concVars, retryVars, detVars, keyVars, cliVars, fetchVars>>
    \/ GetPrayerTimesByAddress /\ UNCHANGED <<concVars, retryVars, detVars, keyVars, cliVars, fetchVars>>
    \/ GetQibla /\ UNCHANGED <<concVars, retryVars, detVars, keyVars, cliVars, fetchVars>>
    \/ SetBypass /\ UNCHANGED <<concVars, retryVars, detVars, keyVars, cliVars, fetchVars>>
    \/ Tick /\ UNCHANGED <<concVars, retryVars, cacheVars, detVars, keyVars, ccVars, cliVars, fetchVars>>

CachedSpecInit ==
    /\ NewCachedClient /\ ConcIdle /\ RetryIdle /\ DetectIdle /\ KeyIdle /\ CliIdle /\ FetchIdle
    /\ now = 1

CachedSpec == CachedSpecInit /\ [][CachedNext]_vars

CliNext ==
    \/ Today /\ UNCHANGED <<concVars, retryVars, cacheVars, detVars, keyVars, ccVars, fetchVars>>
    \/ GetCmd /\ UNCHANGED <<concVars, retryVars, cacheVars, detVars, keyVars, ccVars, fetchVars>>
    \/ NextCmd /\ UNCHANGED <<concVars, retryVars, cacheVars, detVars, keyVars, ccVars, fetchVars>>
    \/ Countdown
         /\ UNCHANGED <<concVars, retryVars, cacheVars, detVars, keyVars, ccVars, fetchVars>>
    \/ Diff /\ UNCHANGED <<concVars, retryVars, cacheVars, detVars, keyVars, ccVars, fetchVars>>
    \/ Tick /\ UNCHANGED <<concVars, retryVars, cacheVars, detVars, keyVars, ccVars,
                           cliVars, fetchVars>>

CliSpecInit ==
    /\ CliInit /\ ConcIdle /\ FetchIdle /\ RetryIdle /\ CacheIdle /\ DetectIdle /\ KeyIdle /\ CachedIdle
    /\ now = 1

CliSpec == CliSpecInit /\ [][CliNext]_vars

FetchNext ==
    \/ FetchEnter
         /\ UNCHANGED <<concVars, cacheVars, now, detVars, keyVars, ccVars, cliVars>>
    \/ Call
         /\ UNCHANGED <<concVars, cacheVars, now, detVars, keyVars, ccVars, cliVars,
                        fetchVars>>
    \/ FinishAttempt
         /\ UNCHANGED <<concVars, cacheVars, now, detVars, keyVars, ccVars, cliVars,
                        fetchVars>>
    \/ BackoffCancelled
         /\ UNCHANGED <<concVars, cacheVars, now, detVars, keyVars, ccVars, cliVars,
                        fetchVars>>
    \/ BackoffElapsed
         /\ UNCHANGED <<concVars, cacheVars, now, detVars, keyVars, ccVars, cliVars,
                        fetchVars>>
    \/ Cancel
         /\ UNCHANGED <<concVars, cacheVars, now, detVars, keyVars, ccVars, cliVars,
                        fetchVars>>
    \/ FetchReturn
         /\ UNCHANGED <<concVars, cacheVars, now, detVars, keyVars, ccVars, cliVars>>

FetchSpecInit ==
    /\ FetchInit /\ ConcIdle /\ CacheIdle /\ DetectIdle /\ KeyIdle /\ CachedIdle /\ CliIdle
    /\ now = 1

FetchSpec == FetchSpecInit /\ [][FetchNext]_vars

ProcNext ==
    \/ StartFetchers
         /\ UNCHANGED <<retryVars, cacheVars, now, detVars, keyVars, ccVars, cliVars, fetchVars, raceVars, timedVars, spinnerVars, dateVars, locVars>>
    \/ \E i \in Fetchers, failed \in BOOLEAN :
          Fetcher(i, failed)
            /\ UNCHANGED <<retryVars, cacheVars, now, detVars, keyVars, ccVars, cliVars, fetchVars, raceVars, timedVars, spinnerVars, dateVars, locVars>>
    \/ Receive
         /\ UNCHANGED <<retryVars, cacheVars, now, detVars, keyVars, ccVars, cliVars, fetchVars, raceVars, timedVars, spinnerVars, dateVars, locVars>>
    \/ Render
         /\ UNCHANGED <<retryVars, cacheVars, now, detVars, keyVars, ccVars, cliVars, fetchVars, raceVars, timedVars, spinnerVars, dateVars, locVars>>
    \/ Start
         /\ UNCHANGED <<retryVars, cacheVars, now, detVars, keyVars, ccVars, cliVars, fetchVars, raceVars, timedVars, spinnerVars, dateVars, locVars>>
    \/ SpinnerDone
         /\ UNCHANGED <<retryVars, cacheVars, now, detVars, keyVars, ccVars, cliVars, fetchVars, raceVars, timedVars, spinnerVars, dateVars, locVars>>
    \/ SpinnerTick
         /\ UNCHANGED <<retryVars, cacheVars, now, detVars, keyVars, ccVars, cliVars, fetchVars, raceVars, timedVars, spinnerVars, dateVars, locVars>>
    \/ \E failed \in BOOLEAN :
          Stop(failed)
            /\ UNCHANGED <<retryVars, cacheVars, now, detVars, keyVars, ccVars, cliVars, fetchVars, raceVars, timedVars, spinnerVars, dateVars, locVars>>
    \/ PostRunSkip
         /\ UNCHANGED <<retryVars, cacheVars, now, detVars, keyVars, ccVars, cliVars, fetchVars, raceVars, timedVars, spinnerVars, dateVars, locVars>>
    \/ CheckAsync
         /\ UNCHANGED <<retryVars, cacheVars, now, detVars, keyVars, ccVars, cliVars, fetchVars, raceVars, timedVars, spinnerVars, dateVars, locVars>>
    \/ \E result \in CheckResults :
          CheckSends(result)
            /\ UNCHANGED <<retryVars, cacheVars, now, detVars, keyVars, ccVars, cliVars, fetchVars, raceVars, timedVars, spinnerVars, dateVars, locVars>>
    \/ CheckCloses
         /\ UNCHANGED <<retryVars, cacheVars, now, detVars, keyVars, ccVars, cliVars, fetchVars, raceVars, timedVars, spinnerVars, dateVars, locVars>>
    \/ DeadlineFires
         /\ UNCHANGED <<retryVars, cacheVars, now, detVars, keyVars, ccVars, cliVars, fetchVars, raceVars, timedVars, spinnerVars, dateVars, locVars>>
    \/ Selected
         /\ UNCHANGED <<retryVars, cacheVars, now, detVars, keyVars, ccVars, cliVars, fetchVars, raceVars, timedVars, spinnerVars, dateVars, locVars>>

ProcSpecInit ==
    /\ ProcInit /\ RetryIdle /\ CacheIdle /\ DetectIdle /\ KeyIdle /\ CachedIdle
    /\ CliIdle /\ FetchIdle /\ RaceIdle /\ TimedIdle
    /\ SpinnerIdle /\ DateIdle
    /\ LocIdle
    /\ now = 1

ProcSpec == ProcSpecInit /\ [][ProcNext]_vars

RaceNext ==
    \/ \E w \in Setters :
          SetOpen(w) /\ UNCHANGED <<retryVars, cacheVars, now, detVars, keyVars, ccVars, cliVars, fetchVars, procVars, timedVars, spinnerVars, dateVars, locVars>>
    \/ \E w \in Setters :
          SetWrite(w) /\ UNCHANGED <<retryVars, cacheVars, now, detVars, keyVars, ccVars, cliVars, fetchVars, procVars, timedVars, spinnerVars, dateVars, locVars>>
    \/ GetRead /\ UNCHANGED <<retryVars, cacheVars, now, detVars, keyVars, ccVars, cliVars, fetchVars, procVars, timedVars, spinnerVars, dateVars, locVars>>
    \/ GetRemove /\ UNCHANGED <<retryVars, cacheVars, now, detVars, keyVars, ccVars, cliVars, fetchVars, procVars, timedVars, spinnerVars, dateVars, locVars>>

RaceSpecInit ==
    /\ RaceInit /\ ProcIdle /\ RetryIdle /\ CacheIdle /\ DetectIdle /\ KeyIdle
    /\ CachedIdle /\ CliIdle /\ FetchIdle /\ TimedIdle
    /\ SpinnerIdle /\ DateIdle
    /\ LocIdle
    /\ now = 1

RaceSpec == RaceSpecInit /\ [][RaceNext]_vars

TimedNext ==
    \/ TimedProvider
         /\ UNCHANGED <<retryVars, cacheVars, now, detVars, keyVars, ccVars, cliVars, fetchVars, procVars, raceVars, spinnerVars, dateVars, locVars>>

TimedSpecInit ==
    /\ TimedInit /\ ProcIdle /\ RaceIdle /\ RetryIdle /\ CacheIdle /\ DetectIdle
    /\ KeyIdle /\ CachedIdle /\ CliIdle /\ FetchIdle
    /\ SpinnerIdle /\ DateIdle
    /\ LocIdle
    /\ now = 1

TimedSpec == TimedSpecInit /\ [][TimedNext]_vars

SpinnerNext ==
    \/ SpinnerStart /\ UNCHANGED <<retryVars, cacheVars, now, detVars, keyVars, ccVars, cliVars, fetchVars, procVars, raceVars, timedVars, dateVars, locVars>>
    \/ \E method \in {"Stop", "Success", "Fail"} :
          SpinnerStop(method) /\ UNCHANGED <<retryVars, cacheVars, now, detVars, keyVars, ccVars, cliVars, fetchVars, procVars, raceVars, timedVars, dateVars, locVars>>
    \/ \E message \in Messages :
          SpinnerUpdate(message) /\ UNCHANGED <<retryVars, cacheVars, now, detVars, keyVars, ccVars, cliVars, fetchVars, procVars, raceVars, timedVars, dateVars, locVars>>
    \/ SpinnerReturn /\ UNCHANGED <<retryVars, cacheVars, now, detVars, keyVars, ccVars, cliVars, fetchVars, procVars, raceVars, timedVars, dateVars, locVars>>

SpinnerSpecInit ==
    /\ NewSpinner /\ DateIdle /\ ProcIdle /\ RaceIdle /\ TimedIdle /\ RetryIdle
    /\ CacheIdle /\ DetectIdle /\ KeyIdle /\ CachedIdle /\ CliIdle /\ FetchIdle
    /\ LocIdle
    /\ now = 1

SpinnerSpec == SpinnerSpecInit /\ [][SpinnerNext]_vars

DateNext ==
    \/ parseDate /\ UNCHANGED <<retryVars, cacheVars, now, detVars, keyVars, ccVars, cliVars, fetchVars, procVars, raceVars, timedVars, spinnerVars, locVars>>

DateSpecInit ==
    /\ DateInit /\ SpinnerIdle /\ ProcIdle /\ RaceIdle /\ TimedIdle /\ RetryIdle
    /\ CacheIdle /\ DetectIdle /\ KeyIdle /\ CachedIdle /\ CliIdle /\ FetchIdle
    /\ LocIdle
    /\ now = 1

DateSpec == DateSpecInit /\ [][DateNext]_vars

LocNext ==
    \/ \E detected \in BOOLEAN :
          runCommand(detected)
            /\ UNCHANGED <<retryVars, cacheVars, now, detVars, keyVars, ccVars, cliVars, fetchVars, procVars, raceVars, timedVars, spinnerVars, dateVars>>

LocSpecInit ==
    /\ LocInit /\ DateIdle /\ SpinnerIdle /\ ProcIdle /\ RaceIdle /\ TimedIdle
    /\ RetryIdle /\ CacheIdle /\ DetectIdle /\ KeyIdle /\ CachedIdle /\ CliIdle
    /\ FetchIdle
    /\ now = 1

LocSpec == LocSpecInit /\ [][LocNext]_vars

-----------------------------------------------------------------------------
(***************************************************************************)
(* Claims                                                                  *)
(***************************************************************************)

\* C1: for maxRetries >= 0, a call whose every attempt failed and whose
\* context was never cancelled made exactly maxRetries + 1 attempts (and no
\* call ever makes more), and returned the error that wraps the last
\* attempt's error and states maxRetries + 1 as the attempt count.
C1_RetryBound ==
    r_maxRetries >= 0 =>
        /\ r_attempts <= r_maxRetries + 1
        /\ (r_pc = "done" /\ ~r_ctxDone /\ r_result.err # NoErr) =>
              /\ r_attempts = r_maxRetries + 1
              /\ r_result.body = NoResult
              /\ r_result.err.kind = "exhausted"
              /\ r_result.err.attempts = r_maxRetries + 1
              /\ r_result.err.wraps.kind \in {"neterr", "status"}
              /\ r_result.err.wraps.attempt = r_attempts - 1

C1_Witness ==
    /\ r_pc = "done"
    /\ ~r_ctxDone
    /\ r_maxRetries = 2
    /\ r_attempts = 3
    /\ r_result.err.kind = "exhausted"

\* C2: once the context is done no further attempt starts; a failed attempt
\* that finds the context done returns the context's error without sleeping;
\* a backoff sleep with the context done ends with the context's error;
\* whatever retry budget remains.
C2_CancellationPrecedence ==
    [][ /\ (r_ctxDone /\ r_attempts >= 1) => r_attempts' = r_attempts
        /\ (r_pc = "inflight" /\ r_ctxDone /\ r_pc' # "inflight") =>
              /\ r_pc' = "done"
              /\ r_result'.err \in {NoErr, CtxErr}
              /\ r_waits' = r_waits
        /\ (r_pc = "backoff" /\ r_ctxDone) =>
              /\ r_pc' = "done"
              /\ r_result'.err = CtxErr
              /\ r_waits' = r_waits
      ]_vars

\* A call that was cancelled after a failed attempt with two retries left.
C2_Witness ==
    /\ r_pc = "done"
    /\ r_ctxDone
    /\ r_result.err = CtxErr
    /\ r_attempts >= 1
    /\ r_attempts + 2 <= r_maxRetries + 1

\* C3: on an enabled cache, a Get(k) that directly follows a Set(k, v) (only
\* time may pass in between) returns (v, found) when less than the TTL has
\* elapsed since the Set, whatever k held before, and returns not-found when
\* more than the TTL has elapsed.
C3_SetThenGet ==
    [][ ( /\ c_last.op = "Set"
          /\ c_last.enabled
          /\ c_last'.op = "Get"
          /\ c_last'.key = c_last.key ) =>
        /\ (now - c_last.at < c_ttl) =>
              (c_last'.found /\ c_last'.ret = c_last.data)
        /\ (now - c_last.at > c_ttl) => ~c_last'.found
      ]_vars

\* C10 as claimed: a Get of a key whose file holds bytes that do not parse as
\* an entry returns not-found and leaves no file behind.
C10_CorruptSelfHeals ==
    (c_last.op = "Get" /\ c_last.pre \in Unparseable) =>
        /\ ~c_last.found
        /\ c_files[c_last.key] = NoFile

\* C10 as amended: the same, for a Get on an enabled cache.
C10_CorruptSelfHealsEnabled ==
    (c_last.op = "Get" /\ c_last.enabled /\ c_last.pre \in Unparseable) =>
        /\ ~c_last.found
        /\ c_last.ret = NilBytes
        /\ c_files[c_last.key] = NoFile

C10_Witness ==
    /\ c_last.op = "Get"
    /\ c_last.enabled
    /\ c_last.pre = [kind |-> "notjson"]
    /\ ~c_last.found
    /\ c_files[c_last.key] = NoFile

\* C4: the providers are contacted in the order 1, 2, 3; a provider is
\* contacted only after every provider before it returned an error or a
\* location that fails IsValid; a successful result is the location of the
\* last provider contacted, which is the first to return a valid location.
C4_FallbackOrder ==
    /\ \A i \in 1..Len(d_calls) : d_calls[i] = i
    /\ \A i \in 2..Len(d_calls) :
          \/ d_replies[i - 1].err # "nil"
          \/ ~IsValid(d_replies[i - 1].loc)
    /\ (d_pc = "done" /\ d_result.err = NoErr) =>
          LET n == Len(d_calls) IN
          /\ n >= 1
          /\ d_replies[n].err = "nil"
          /\ IsValid(d_replies[n].loc)
          /\ d_result.loc.provider = n
          /\ d_result.loc.lat = d_replies[n].loc.lat
          /\ d_result.loc.lon = d_replies[n].loc.lon

\* Provider 1 failed, provider 2 reported (0, 0), provider 3 was valid.
C4_Witness ==
    /\ d_pc = "done"
    /\ Len(d_calls) = 3
    /\ d_replies[1].err = "status"
    /\ d_replies[2].err = "nil" /\ d_replies[2].loc.lat = 0
    /\ d_replies[2].loc.lon = 0
    /\ d_result.err = NoErr
    /\ d_result.loc.lat = 30 /\ d_result.loc.lon = 31
    /\ d_result.loc.source = "ip"

\* Both keys have been derived.
KeysDerived == k_keys[1] # "" /\ k_keys[2] # ""

\* C8: two requests that differ in operation kind, coordinates or address,
\* date, or method never receive the same key.
C8_DistinctRequestsDistinctKeys ==
    (KeysDerived /\ k_reqs[1] # k_reqs[2]) => k_keys[1] # k_keys[2]

\* The positions at which two parameter lists of one length differ.
DiffPositions(ps, qs) == {i \in 1..Len(ps) : ps[i] # qs[i]}

\* C9: equal parameter lists give equal keys, and two parameter lists that
\* differ in exactly one parameter (the date, the method, the latitude, the
\* longitude or the address) give different keys.
C9_KeyFollowsParameters ==
    KeysDerived =>
        LET ps == KeyParams(k_reqs[1])
            qs == KeyParams(k_reqs[2]) IN
        /\ ps = qs => k_keys[1] = k_keys[2]
        /\ (Len(ps) = Len(qs) /\ Cardinality(DiffPositions(ps, qs)) = 1) =>
              k_keys[1] # k_keys[2]

\* Two timings requests that differ in the method alone, with their keys.
C9_Witness ==
    /\ KeysDerived
    /\ k_reqs[1].kind = "times"
    /\ k_reqs[2] = [k_reqs[1] EXCEPT !.method = 12]
    /\ k_reqs[1].method = 5
    /\ k_keys[1] # k_keys[2]


\* C5: every prayer-times request of a command (today, get, next, countdown,
\* diff) goes through the response cache: a run whose requests were all
\* fetched by an earlier run within the TTL, and that is not given
\* --no-cache, makes no remote call.
C5_CommandsUseCache ==
    (cli_last.cmd # "none" /\ cli_last.repeated /\ ~cli_last.noCache)
        => cli_last.sent = 0

\* C6: with the cache enabled and bypass off, after a CachedClient call has
\* succeeded, the next call with the same parameters made before the entry
\* expires returns the same result and makes no remote call.
C6_RepeatServedFromCache ==
    [][(/\ cc_last.src # "none"
        /\ cc_last.usedCache
        /\ cc_last.err = "nil"
        /\ ~skipsCache(cc_hasCache, cc_bypass, c_enabled)
        /\ ~expired(now, cc_last.until)
        /\ cc_last'.req = cc_last.req)
       => (/\ cc_last'.err = "nil"
           /\ cc_last'.result = cc_last.result
           /\ net_calls' = net_calls)]_vars

\* A call answered from the cache with the result an earlier call stored.
C6_Witness ==
    /\ cc_last.src = "cache"
    /\ cc_last.usedCache
    /\ cc_last.fresh
    /\ cc_last.result = cc_last.stored
    /\ cc_last.sent = 0
    /\ net_calls = 1

\* C7: with bypass on, every call of the CachedClient goes to the Client and
\* so to the network, also when a valid, unexpired entry for the request
\* exists; the stored entry is never what the call returns.
C7_BypassAlwaysNetwork ==
    (cc_last.src # "none" /\ cc_last.bypass)
        => /\ cc_last.src = "network"
           /\ ~addressRequired(cc_last.req) => cc_last.sent = 1
           /\ cc_last.err = "nil" => cc_last.result # cc_last.stored

\* The second of two remote calls, made with bypass on for a request whose
\* entry is in the cache and not expired.
C7_Witness ==
    /\ cc_last.src = "network"
    /\ cc_last.bypass
    /\ cc_last.fresh
    /\ cc_last.err = "nil"
    /\ cc_last.stored = Response(cc_last.req, 1)
    /\ cc_last.sent = 1
    /\ net_calls = 2

\* The ExpiresAt json.Unmarshal reads from a file that parses as an entry.
ParsedExpiry(file) == UnmarshalEntry(file).expiresAt

\* Whether a file's content parses as an entry.
Parses(file) == file # NoFile /\ UnmarshalEntry(file).ok

\* C11: Get never returns an entry whose expiresAt has passed: a Get that
\* finds the entry expired returns not-found, and the entry file no longer
\* exists after the call.
C11_ExpiredNeverReturned ==
    c_last.op = "Get" =>
        /\ c_last.found =>
              /\ Parses(c_last.pre)
              /\ ~(c_last.at > ParsedExpiry(c_last.pre))
        /\ (/\ c_last.enabled
            /\ Parses(c_last.pre)
            /\ c_last.at > ParsedExpiry(c_last.pre))
           => /\ ~c_last.found
              /\ c_last.ret = NilBytes
              /\ c_files[c_last.key] = NoFile

\* A Get that read an entry written by Set after its ExpiresAt had passed.
C11_Witness ==
    /\ c_last.op = "Get"
    /\ c_last.enabled
    /\ c_last.pre.kind = "entry"
    /\ c_last.at > c_last.pre.expiresAt
    /\ ~c_last.found
    /\ c_files[c_last.key] = NoFile

\* C12: Get does not change an unexpired, parseable entry, and consecutive
\* Get calls on its key return identical bytes until the next Set on the key
\* or the entry's expiry (now > expiresAt).
C12_GetIdempotent ==
    [][/\ (/\ c_last'.op = "Get"
           /\ c_last' # c_last
           /\ Parses(c_files[c_last'.key])
           /\ ~(now > ParsedExpiry(c_files[c_last'.key])))
          => c_files' = c_files
       /\ (/\ c_last.op = "Get"
           /\ c_last.found
           /\ c_last'.op = "Get"
           /\ c_last'.key = c_last.key
           /\ ~(now > ParsedExpiry(c_files[c_last.key])))
          => /\ c_last'.found
             /\ c_last'.ret = c_last.ret
             /\ c_files' = c_files]_vars

\* A second Get in a row, at a later time, that returned the entry's bytes.
C12_Witness ==
    /\ c_last.op = "Get"
    /\ c_last.found
    /\ c_last.pre.kind = "entry"
    /\ c_last.at > c_last.pre.createdAt
    /\ c_last.ret = c_last.pre.data
    /\ c_files[c_last.key] = c_last.pre

\* C13: when a CachedClient call does not hit the cache (entry absent,
\* expired or bypassed) and the Client's call fails, the call returns the
\* Client's error unchanged and no result, and no entry is written: every
\* file is as it was or is gone.
C13_FailurePropagates ==
    [][(/\ (cc_last' # cc_last \/ net_calls' # net_calls)
        /\ cc_last'.src = "network"
        /\ cc_last'.clientErr # "nil")
       => (/\ cc_last'.err = cc_last'.clientErr
           /\ cc_last'.result = NoResult
           /\ \A k \in DOMAIN c_files :
                 c_files'[k] = c_files[k] \/ c_files'[k] = NoFile)]_vars

\* A failed remote call made on the cache path for a request whose stored
\* entry had expired.
C13_Witness ==
    /\ cc_last.src = "network"
    /\ cc_last.usedCache
    /\ cc_last.clientErr = "neterr"
    /\ cc_last.err = "neterr"
    /\ cc_last.stored # NoResult
    /\ ~cc_last.fresh
    /\ cc_last.result = NoResult
    /\ cc_last.sent = 1

\* C14: DetectFromIP returns either a location that satisfies IsValid and
\* carries source "ip" and the detection time, with no error, or, after all
\* three providers failed or gave an invalid location, no location and the
\* one aggregated error; before it returns there is no result.
C14_ValidOrAggregatedError ==
    /\ d_pc # "done" => d_result = NoResult
    /\ d_pc = "done" =>
          \/ /\ d_result.err = NoErr
             /\ d_result.loc # NoResult
             /\ IsValid(d_result.loc)
             /\ d_result.loc.source = "ip"
             /\ d_result.loc.detectedAt = now
             /\ d_result.loc.detectedAt # ZeroTime
          \/ /\ d_result.err = AllFailedErr
             /\ d_result.loc = NoResult
             /\ Len(d_calls) = Len(Providers)
             /\ \A i \in 1..Len(d_replies) :
                   \/ d_replies[i].err # "nil"
                   \/ ~IsValid(d_replies[i].loc)

\* All three providers answered, the last with a latitude out of range, and
\* DetectFromIP returned the aggregated error and no location.
C14_Witness ==
    /\ d_pc = "done"
    /\ Len(d_calls) = 3
    /\ d_replies[1].err = "neterr"
    /\ d_replies[2].err = "refused"
    /\ d_replies[3].err = "nil" /\ d_replies[3].loc.lat = 91
    /\ d_result.err = AllFailedErr
    /\ d_result.loc = NoResult

\* C15: doRequestWithRetry returns a body only if an attempt received a 2xx
\* status; it is the body of the last attempt made, every attempt before it
\* failed, and nothing happens after the return. An attempt that ends in a
\* transport error or another status is followed by a backoff and a further
\* attempt while attempt < maxRetries and the context is live.
C15_BodyOnlyOn2xx ==
    [][/\ r_pc' # "done" => r_result' = NoResult
       /\ (r_pc' = "done" /\ r_result'.body # NoResult) =>
             /\ r_result'.err = NoErr
             /\ r_result'.body.status = "2xx"
             /\ r_result'.body.attempt = r_attempts' - 1
             /\ r_attempts' >= 2 => r_lastErr'.attempt = r_attempts' - 2
       /\ r_pc = "done" => UNCHANGED retryVars
       /\ (/\ r_pc = "inflight"
           /\ r_lastErr' # r_lastErr
           /\ ~r_ctxDone
           /\ r_attempt < r_maxRetries)
          => /\ r_pc' = "backoff"
             /\ r_lastErr'.kind \in {"neterr", "status"}
             /\ r_lastErr'.attempt = r_attempt
       /\ (r_pc = "backoff" /\ r_pc' # "backoff" /\ ~r_ctxDone)
          => /\ r_pc' = "inflight"
             /\ r_attempts' = r_attempts + 1]_vars

\* Two failed attempts, then a 2xx on the third, whose body was returned.
C15_Witness ==
    /\ r_pc = "done"
    /\ ~r_ctxDone
    /\ r_attempts = 3
    /\ r_lastErr.attempt = 1
    /\ r_result.err = NoErr
    /\ r_result.body = Body("2xx", 2)

\* A fetch method that tests the code has returned after a 2xx response
\* whose JSON body carries a code other than 200.
AppErrorReceived ==
    /\ f_pc = "done"
    /\ f_call.kind \in {"times", "addr", "qibla"}
    /\ f_received # NoResult
    /\ f_received.json
    /\ f_received.code # 200

C17_PayloadOnlyOnCode200 ==
    f_pc = "done" =>
        /\ f_result.payload # NoResult =>
              /\ f_received # NoResult
              /\ f_received.json
              /\ f_received.code = 200
        /\ f_result.payload = NoResult => f_result.err # NoErr

\* C18: if the caller's deadline expires while an attempt is in flight,
\* doRequestWithRetry returns the context's error and no body, whatever the
\* attempt produced.
C18_InFlightResultDiscarded ==
    [][(r_pc = "inflight" /\ r_ctxDone /\ r_pc' = "done")
       => (r_result'.err = CtxErr /\ r_result'.body = NoResult)]_vars

\* C19: while the cache is disabled, Get returns not-found for every key,
\* also for a key with a valid unexpired entry on disk, Set returns success,
\* and neither call changes any file.
C19_DisabledIsInert ==
    [][(c_last'.op \in {"Get", "Set"} /\ ~c_last'.enabled)
       => (/\ c_files' = c_files
           /\ c_last'.op = "Get" =>
                 (~c_last'.found /\ c_last'.ret = NilBytes)
           /\ c_last'.op = "Set" => c_last'.err = "nil")]_vars

\* A Get on the disabled cache for a key whose file holds an unexpired
\* entry: not found, the file as it was.
C19_Witness ==
    /\ c_last.op = "Get"
    /\ ~c_last.enabled
    /\ c_last.pre.kind = "entry"
    /\ ~(c_last.at > c_last.pre.expiresAt)
    /\ ~c_last.found
    /\ c_last.ret = NilBytes
    /\ c_files[c_last.key] = c_last.pre

\* C20: when the remote call succeeds but writing the entry to the cache
\* fails, the CachedClient call still returns the fresh result and no
\* error.
C20_WriteFailureIgnored ==
    (/\ cc_last.src = "network"
     /\ cc_last.clientErr = "nil"
     /\ cc_last.setErr \notin {"nil", "none"})
    => /\ cc_last.err = "nil"
       /\ cc_last.result = Response(cc_last.req, net_calls)
       /\ cc_last.sent = 1

\* A call on the cache path whose remote call succeeded and whose Set failed
\* to write the file, the cache directory being absent.
C20_Witness ==
    /\ cc_last.src = "network"
    /\ cc_last.usedCache
    /\ ~c_dirExists
    /\ cc_last.setErr = "write"
    /\ cc_last.err = "nil"
    /\ cc_last.result = Response(cc_last.req, 1)
    /\ cc_last.until = ZeroTime

\* Whether a file is an entry whose payload does not decode into a response.
HoldsUndecodable(file) == file.kind = "entry" /\ ~Unmarshal(file.data).ok

\* C21: when a cache hit yields a payload that cannot be deserialized, the
\* CachedClient issues the remote call, and the undecodable entry is no
\* longer in the cache afterwards, also when the remote call fails.
C21_UndecodablePurged ==
    [][(net_calls' # net_calls /\ cc_last'.undecodable)
       => (/\ cc_last'.src = "network"
           /\ ~HoldsUndecodable(c_files'[RequestKeys[cc_last'.req]]))]_vars

\* C22: with the cache enabled and bypass requested, a successful remote
\* fetch is still written to the cache under the request's key, so that the
\* entry holds the fresh value until the TTL has passed.
C22_BypassStillWrites ==
    [][(/\ net_calls' # net_calls
        /\ cc_hasCache /\ c_enabled /\ c_dirExists
        /\ cc_last'.bypass
        /\ cc_last'.err = "nil")
       => (/\ HoldsFresh(c_files', RequestKeys[cc_last'.req], now)
           /\ Unmarshal(c_files'[RequestKeys[cc_last'.req]].data).result
                = cc_last'.result)]_vars

\* C29: on any enabled cache, including one that was constructed disabled
\* and enabled later with SetEnabled(true), a Set of a valid payload
\* succeeds and leaves the key's entry in the cache.
C29_SetCreatesDirectory ==
    (c_last.op = "Set" /\ c_last.enabled /\ validJSON(c_last.data))
        => (c_last.err = "nil" /\ c_files[c_last.key].kind = "entry")

\* C30: Clear removes every entry (Get then finds no key) and returns no
\* error, also when the directory does not exist; Delete(k) removes k's
\* entry only, leaves every other file unchanged, and returns no error,
\* also when k has no entry.
C30_ClearAllDeleteOne ==
    [][(now' = now)
       => (/\ (c_last'.op = "Clear")
                => (/\ c_last'.err = "nil"
                    /\ \A k \in CacheKeys :
                          /\ c_files'[k] = NoFile
                          /\ ~Get(c_files', c_enabled', now', k).found)
           /\ (c_last'.op = "Delete")
                => (/\ c_last'.err = "nil"
                    /\ c_files'[c_last'.key] = NoFile
                    /\ ~Get(c_files', c_enabled', now', c_last'.key).found
                    /\ \A k \in CacheKeys \ {c_last'.key} :
                          c_files'[k] = c_files[k]))]_vars

\* A Delete of a key that had an entry, made while another key has one too.
C30_Witness ==
    /\ c_last.op = "Delete"
    /\ c_last.pre.kind = "entry"
    /\ \E k \in CacheKeys \ {c_last.key} : c_files[k].kind = "entry"

\* Whether runDiffCommand has passed its two error tests.
DiffDecided == p_cmd = "diff" /\ p_pc \in {"postrun", "select", "exit"}

\* C23: the comparison is rendered only after both fetchers have delivered
\* their result and both succeeded; if either fetch fails the command
\* returns an error and renders nothing, in whatever order the two fetches
\* completed.
C23_DiffJoinsBoth ==
    /\ (p_cmd = "diff" /\ p_out # "none")
         => (\A i \in Fetchers : g_pc[i] = "done" /\ p_r[i] # NoResult)
    /\ DiffDecided
         => (/\ p_out = "rendered" <=> (\A i \in Fetchers : ~p_r[i].err)
             /\ p_out # "rendered" => p_out \in {"error1", "error2"})

\* The second fetch failed and the first succeeded: an error, no render.
C23_Witness ==
    /\ DiffDecided
    /\ ~p_r[1].err /\ p_r[2].err
    /\ p_out = "error2"

AllFinished ==
    /\ \A i \in Fetchers : g_pc[i] \in {"none", "done"}
    /\ s_pc \in {"none", "done"}
    /\ u_pc \in {"none", "done"}

\* C25: every goroutine a command starts has finished before the process
\* exits: none is left running, in particular not the update goroutine
\* after its deadline fired and not the spinner goroutine after Stop or
\* Fail.
C25_GoroutinesJoined == (p_pc = "exit") => AllFinished

\* Whether the Sets and the Get on the key have all completed.
RaceOver == get_pc = "done" /\ \A w \in Setters : set_pc[w] = "done"

\* What a Get made now, with nothing running beside it, returns.
GetNow ==
    IF fs_path # NoInode /\ parses(fs_inodes[fs_path])
    THEN Found(fs_inodes[fs_path]) ELSE NotFound

\* C26: once the concurrent Sets and Gets on a key have all completed, Get
\* returns exactly the payload of the last Set to complete, and the delete
\* of the concurrent Get has not removed an entry that a Set had written
\* completely.
C26_LastWriteWins ==
    RaceOver
        => (/\ GetNow = Found(set_data[set_order[Len(set_order)]])
            /\ ~parses(get_removed))

\* Whether provider 1 hung until the client's Timeout ended its request.
FirstTimedOut ==
    /\ Len(t_attempts) >= 1
    /\ t_attempts[1].took = DefaultDetectionTimeout
    /\ t_attempts[1].cause = "timeout"

\* C27: the deadline of ctx bounds the duration of DetectFromIP, and when
\* provider 1 hangs until it times out (and the caller does not cancel),
\* every provider tried after it is tried with time remaining before that
\* deadline; with no provider accepted, providers 2 and 3 both are.
C27_NoStarvation ==
    /\ t_elapsed <= t_deadline
    /\ (FirstTimedOut /\ ~t_cancelled)
         => (/\ \A i \in 2..Len(t_attempts) : t_attempts[i].remaining > 0
             /\ (t_pc = "done" /\ t_result.err # NoErr)
                  => Len(t_attempts) = Len(Providers))

\* Whether ctx was done (cancelled, or past its deadline) when DetectFromIP
\* returned.
CtxDoneDuring == t_cancelled \/ t_elapsed >= t_deadline

\* C28: when ctx is cancelled or its deadline fires during DetectFromIP and
\* no provider was accepted, no provider is contacted after that and the
\* returned error is the cancellation.
C28_CancellationSurfaced ==
    (t_pc = "done" /\ CtxDoneDuring /\ t_result.err # NoErr)
        => (/\ \A i \in 1..Len(t_attempts) :
                  t_attempts[i].ctxDone => ~t_attempts[i].contacted
            /\ t_result.err = CtxErr)

\* The locations the adapters have returned so far.
Located == {d_replies[i].loc : i \in {j \in 1..Len(d_replies) :
                                         d_replies[j].err = "nil"}}

\* C31: IsValid is true if and only if the latitude is within [-90, 90],
\* the longitude within [-180, 180], and at least one of the two is not
\* zero; (0, 0) is never valid.
C31_IsValidIffInRange ==
    \A loc \in Located :
        /\ IsValid(loc) <=> (/\ loc.lat \in -90..90
                             /\ loc.lon \in -180..180
                             /\ <<loc.lat, loc.lon>> # <<0, 0>>)
        /\ (loc.lat = 0 /\ loc.lon = 0) => ~IsValid(loc)

\* Provider 1 reported (0, 0), it was not accepted, and provider 2 reported
\* the corner (90, -180), which was.
C31_Witness ==
    /\ Len(d_replies) = 2
    /\ d_replies[1].err = "nil"
    /\ d_replies[1].loc.lat = 0 /\ d_replies[1].loc.lon = 0
    /\ d_pc = "done" /\ d_result.err = NoErr
    /\ d_result.loc.lat = 90 /\ d_result.loc.lon = -180

\* C32: the wait before the n-th retry is exactly n * n * 100 ms; no wait
\* precedes the first attempt and none follows the last: the waits slept
\* are one fewer than the attempts made, and never more than maxRetries.
C32_BackoffSquares ==
    /\ \A n \in 1..Len(r_waits) : r_waits[n] = n * n * 100
    /\ r_attempts = 0 => r_waits = << >>
    /\ r_attempts >= 1 => Len(r_waits) = r_attempts - 1
    /\ r_waits # << >> => Len(r_waits) <= r_maxRetries

\* The default of three retries all made: the waits were 100, 400, 900 ms,
\* and the call is over after the fourth attempt.
C32_Witness ==
    /\ r_maxRetries = DefaultMaxRetries
    /\ r_pc = "done"
    /\ r_attempts = DefaultMaxRetries + 1
    /\ r_waits = <<100, 400, 900>>

\* C37: doRequestWithRetry has sent at least one HTTP request when it
\* returns, for every value of maxRetries, zero and negative ones included.
C37_AtLeastOneRequest == (r_pc = "done") => r_attempts >= 1

\* Whether a file is an entry whose expiresAt has passed at time t.
HasPassed(file, t) ==
    \/ file.kind = "entry" /\ t > file.expiresAt
    \/ file = EmptyObject

\* What a CleanExpired step did right: every entry whose expiresAt has
\* passed is gone, every unexpired entry is as it was, and the number
\* returned is the number of files removed.
Swept ==
    /\ \A k \in CacheKeys :
          /\ HasPassed(c_files[k], now) => c_files'[k] = NoFile
          /\ (c_files[k].kind = "entry" /\ ~HasPassed(c_files[k], now))
                => c_files'[k] = c_files[k]
    /\ c_last'.removed =
          Cardinality({k \in CacheKeys :
                          c_files[k] # NoFile /\ c_files'[k] = NoFile})

C34_ExpiresAfterCreated ==
    \A k \in CacheKeys :
        c_files[k].kind = "entry" => c_files[k].expiresAt > c_files[k].createdAt

\* Whether two timings requests have the same coordinates, date and method.
SameKeyed(a, b) ==
    /\ a.kind = "times" /\ b.kind = "times"
    /\ a.lat = b.lat /\ a.lon = b.lon /\ a.date = b.date /\ a.method = b.method

\* C35: a GetPrayerTimes call answered from the cache returns a response
\* that was fetched for the same request: of two requests with the same
\* coordinates, date and method that differ in school, neither is answered
\* from the other's entry.
C35_HitIsForSameRequest ==
    (/\ cc_last.src = "cache"
     /\ cc_last.req.kind = "times"
     /\ SameKeyed(cc_last.req, cc_last.result.for))
        => cc_last.result.for = cc_last.req

\* C36: for every sequence of Start, Stop, Success, Fail and Update calls
\* on one Spinner, the done channel is closed at most once and no call
\* panics.
C36_DoneClosedOnce == sp_closes <= 1 /\ ~sp_panicked

\* C39: getNextWeekday(from, w) falls on weekday w, is strictly after from
\* and at most 7 days after it, exactly 7 when from falls on w.
C39_NextWeekdayStrictlyAfter ==
    (wd_result # NoResult)
        => (/\ Weekday(wd_result.day) = wd_target
            /\ wd_result.day > wd_from
            /\ wd_result.day <= wd_from + 7
            /\ (Weekday(wd_from) = wd_target) => wd_result.day = wd_from + 7)

\* `pray get thursday` on a Thursday: the date is a week later.
C39_Witness ==
    /\ wd_from = 7 /\ wd_target = 4
    /\ wd_result # NoResult
    /\ wd_result.day = 14

\* C38: the location is chosen by the priority auto-detect > address flag
\* > coordinate flags > saved config, and the timings are fetched for that
\* chosen location, which is also the one displayed and the one saved with
\* --save, for every combination of flags.
C38_FetchedForChosen ==
    (l_out # NoResult /\ l_out.kind = "fetched")
        => (/\ l_out.chosen.by =
                  (IF l_flags.auto THEN "auto"
                   ELSE IF l_flags.address # "" THEN "address"
                   ELSE IF l_flags.coords THEN "coords" ELSE "config")
            /\ l_out.fetched =
                  (IF l_out.chosen.by = "address"
                   THEN [kind |-> "addr", address |-> l_out.chosen.str]
                   ELSE [kind |-> "coords", lat |-> l_out.chosen.lat,
                         lon |-> l_out.chosen.lon])
            /\ l_out.saved \in {"none", "unchanged", l_out.chosen.by})

=========================================================================
